---- MODULE Spec2Model ----
(***************************************************************************)
(* Chat application: tRPC chat router (server/trpc/routers/chat.ts), the   *)
(* Gemini text / image adapters (lib/geminiService, found in lib/auth0.ts) *)
(* and the Supabase chat_history table (lib/supabaseClient).               *)
(*                                                                         *)
(* A string is a sequence of runs <<ch, n>>: the character ch repeated n   *)
(* times.  User input is written over the characters " ", "<", ">", "a";   *)
(* fixed literals of the program are runs of length 1 of a whole segment.  *)
(* A string is kept normalised: no run of length 0, no two neighbouring    *)
(* runs of the same character, so that equal texts are equal values.       *)
(***************************************************************************)
EXTENDS Integers, Sequences, FiniteSets, TLC

\* ------------------------------------------------------------------ bounds
\* Number of RPC calls (request slots) in one behaviour; calls overlap freely.
MaxReqs == 2

\* ------------------------------------------------------- program constants
MaxMessageLen == 2000
MaxPromptLen == 1000
SliceLimit == 2000
AdapterMaxLen == 2000

\* ------------------------------------------------------------------ strings
Whitespace == {" "}
AngleBrackets == {"<", ">"}

RECURSIVE Length(_)
Length(s) == IF s = <<>> THEN 0 ELSE Head(s)[2] + Length(Tail(s))

\* Joins neighbouring runs of one character and drops empty runs.
RECURSIVE Normalize(_)
Normalize(s) ==
    IF s = <<>> THEN <<>>
    ELSE IF Head(s)[2] = 0 THEN Normalize(Tail(s))
    ELSE LET rest == Normalize(Tail(s)) IN
         IF rest # <<>> /\ Head(rest)[1] = Head(s)[1]
         THEN <<<<Head(s)[1], Head(s)[2] + Head(rest)[2]>>>> \o Tail(rest)
         ELSE <<Head(s)>> \o rest

Concat(s, t) == Normalize(s \o t)

RECURSIVE TrimStart(_)
TrimStart(s) ==
    IF s = <<>> THEN <<>>
    ELSE IF Head(s)[1] \in Whitespace THEN TrimStart(Tail(s))
    ELSE s

RECURSIVE TrimEnd(_)
TrimEnd(s) ==
    IF s = <<>> THEN <<>>
    ELSE IF s[Len(s)][1] \in Whitespace THEN TrimEnd(SubSeq(s, 1, Len(s) - 1))
    ELSE s

\* String.prototype.trim
Trim(s) == TrimEnd(TrimStart(s))

\* String.prototype.slice(0, k)
RECURSIVE Slice(_, _)
Slice(s, k) ==
    IF s = <<>> \/ k <= 0 THEN <<>>
    ELSE IF Head(s)[2] >= k THEN <<<<Head(s)[1], k>>>>
    ELSE <<Head(s)>> \o Slice(Tail(s), k - Head(s)[2])

\* String.prototype.replace(/[<>]/g, '')
RECURSIVE DropAngles(_)
DropAngles(s) ==
    IF s = <<>> THEN <<>>
    ELSE IF Head(s)[1] \in AngleBrackets THEN DropAngles(Tail(s))
    ELSE <<Head(s)>> \o DropAngles(Tail(s))

ReplaceAngles(s) == Normalize(DropAngles(s))

sanitizeUserInput(input) == ReplaceAngles(Slice(Trim(input), SliceLimit))

\* encodeURIComponent on the characters of user input
EncodeChar(c) ==
    CASE c = " " -> "%20"
      [] c = "<" -> "%3C"
      [] c = ">" -> "%3E"
      [] OTHER -> c

RECURSIVE encodeURIComponent(_)
encodeURIComponent(s) ==
    IF s = <<>> THEN <<>>
    ELSE <<<<EncodeChar(Head(s)[1]), Head(s)[2]>>>> \o encodeURIComponent(Tail(s))

Lit(text) == <<<<text, 1>>>>

\* String.prototype.includes on a literal segment
Contains(s, segment) == \E i \in 1..Len(s) : s[i][1] = segment

EndsWith(s, segment) == s # <<>> /\ s[Len(s)] = <<segment, 1>>


\* ------------------------------------------------------------ configuration
\* process.env: which credentials are set.  Read-only after startup.
EnvSpace == [GEMINI_API_KEY : BOOLEAN, HUGGINGFACE_API_KEY : BOOLEAN, OPENAI_API_KEY : BOOLEAN]

\* ------------------------------------------------------------- text adapter
NotConfiguredText == Lit("I apologize, but the AI service is not configured. Please check the API key configuration.")
InvalidKeyText == Lit("I apologize, but there's an issue with the AI service configuration.")
OverloadedText ==
    <<<<"I apologize, but the AI text service is temporarily overloaded due to high demand. Please try again in a few minutes. Good news: Image generation is still working! Try typing ", 1>>,
      <<"/image", 1>>,
      <<" followed by your image description to generate pictures instead. Example: /image a beautiful sunset over mountains", 1>>>>
TechnicalDifficultiesText == Lit("I apologize, but I'm experiencing technical difficulties right now. Please try again later.")

\* An error description is a sequence of words; includes() looks for a word.
Includes(message, word) == \E i \in 1..Len(message) : message[i] = word

IsOverload(message) ==
    \/ Includes(message, "quota")
    \/ Includes(message, "limit")
    \/ Includes(message, "overloaded")
    \/ Includes(message, "503")

\* What the upstream Gemini call does: returns a text, throws an Error with a
\* description, or throws a value that is no Error.
HiThere == Lit("Hi there")
UpstreamText ==
    { [kind |-> "ok", text |-> HiThere, message |-> <<>>],
      [kind |-> "error", text |-> <<>>, message |-> <<"API_KEY", "not", "valid">>],
      [kind |-> "error", text |-> <<>>, message |-> <<"quota", "exceeded">>],
      [kind |-> "error", text |-> <<>>, message |-> <<"fetch", "failed">>] }

\* No upstream call was made.
NoUpstream == [kind |-> "none", text |-> <<>>, message |-> <<>>]

\* The adapters' results share one shape: text is GeminiResponse.response or
\* GeminiImageResponse.imageUrl; calls lists the upstream services invoked, in
\* order; sent is the text handed to them; source names the return statement
\* taken ("none" before the adapter has returned).
AdapterResult(source, text, success, error, calls, sent) ==
    [source |-> source, text |-> text, success |-> success, error |-> error,
     calls |-> calls, sent |-> sent]

NoAdapterResult == AdapterResult("none", <<>>, FALSE, <<>>, <<>>, <<>>)

\* Mutant: the quota / overload case is not told apart from the generic one.
generateGeminiResponse_NoOverloadCase(userMessage, e, upstream) ==
    IF ~e.GEMINI_API_KEY
    THEN AdapterResult("notConfigured", NotConfiguredText, FALSE, <<"Gemini API key not configured">>, <<>>, <<>>)
    ELSE IF upstream.kind = "ok"
    THEN AdapterResult("gemini", upstream.text, TRUE, <<>>, <<"gemini">>, userMessage)
    ELSE IF upstream.kind = "error" /\ Includes(upstream.message, "API_KEY")
    THEN AdapterResult("invalidKey", InvalidKeyText, FALSE, <<"Invalid API key">>, <<"gemini">>, userMessage)
    ELSE AdapterResult("generic", TechnicalDifficultiesText, FALSE,
                       IF upstream.kind = "error" THEN upstream.message ELSE <<"Unknown error">>,
                       <<"gemini">>, userMessage)

\* Mutant: the quota / overload words are looked for before API_KEY.
generateGeminiResponse_OverloadBeforeApiKey(userMessage, e, upstream) ==
    IF ~e.GEMINI_API_KEY
    THEN AdapterResult("notConfigured", NotConfiguredText, FALSE, <<"Gemini API key not configured">>, <<>>, <<>>)
    ELSE IF upstream.kind = "ok"
    THEN AdapterResult("gemini", upstream.text, TRUE, <<>>, <<"gemini">>, userMessage)
    ELSE IF upstream.kind = "error" /\ IsOverload(upstream.message)
    THEN AdapterResult("overloaded", OverloadedText, FALSE, <<"Service temporarily overloaded">>, <<"gemini">>, userMessage)
    ELSE IF upstream.kind = "error" /\ Includes(upstream.message, "API_KEY")
    THEN AdapterResult("invalidKey", InvalidKeyText, FALSE, <<"Invalid API key">>, <<"gemini">>, userMessage)
    ELSE AdapterResult("generic", TechnicalDifficultiesText, FALSE,
                       IF upstream.kind = "error" THEN upstream.message ELSE <<"Unknown error">>,
                       <<"gemini">>, userMessage)

generateGeminiResponse(userMessage, e, upstream) ==
    IF ~e.GEMINI_API_KEY
    THEN AdapterResult("notConfigured", NotConfiguredText, FALSE, <<"Gemini API key not configured">>, <<>>, <<>>)
    ELSE IF upstream.kind = "ok"
    THEN AdapterResult("gemini", upstream.text, TRUE, <<>>, <<"gemini">>, userMessage)
    ELSE IF upstream.kind = "error" /\ Includes(upstream.message, "API_KEY")
    THEN AdapterResult("invalidKey", InvalidKeyText, FALSE, <<"Invalid API key">>, <<"gemini">>, userMessage)
    ELSE IF upstream.kind = "error" /\ IsOverload(upstream.message)
    THEN AdapterResult("overloaded", OverloadedText, FALSE, <<"Service temporarily overloaded">>, <<"gemini">>, userMessage)
    ELSE AdapterResult("generic", TechnicalDifficultiesText, FALSE,
                       IF upstream.kind = "error" THEN upstream.message ELSE <<"Unknown error">>,
                       <<"gemini">>, userMessage)

\* generateGeminiStreamResponse: what the generator yields.  A fragment is
\* {chunk, done: false, success: true}; the last yield is the done marker or
\* the one yield of a failure, both {done: true}.
Fragments == {Lit("Hi"), Lit(" there"), <<>>}

\* What makes the upstream stream fail: an Error with a description, or a
\* thrown value that is no Error.
StreamFailures ==
    {u \in UpstreamText : u.kind = "error"}
       \cup {[kind |-> "thrown", text |-> <<>>, message |-> <<>>]}

StreamNotConfigured ==
    AdapterResult("notConfigured", NotConfiguredText, FALSE, <<"Gemini API key not configured">>, <<>>, <<>>)

StreamDone(userMessage) == AdapterResult("gemini", <<>>, TRUE, <<>>, <<"gemini">>, userMessage)

StreamErrorChunk(userMessage, failure) ==
    LET error == IF failure.kind = "error" THEN failure.message ELSE <<"Unknown error">> IN
    IF failure.kind = "error" /\ Includes(failure.message, "API_KEY")
    THEN AdapterResult("invalidKey", InvalidKeyText, FALSE, error, <<"gemini">>, userMessage)
    ELSE IF failure.kind = "error" /\ IsOverload(failure.message)
    THEN AdapterResult("overloaded", OverloadedText, FALSE, error, <<"gemini">>, userMessage)
    ELSE AdapterResult("generic", TechnicalDifficultiesText, FALSE, error, <<"gemini">>, userMessage)

\* ------------------------------------------------------------ image adapter
\* What the three providers do when asked.
\*   hf:     "ok" | "non2xx" | "throws"
\*   poll:   "image" (2xx, content-type starting image/) | "notImage" (2xx, other or no
\*           content-type) | "non2xx" | "throws"
\*   openai: "url" (2xx with data[0].url) | "noUrl" (2xx without) | "non2xx" | "throws"
FetchSpace ==
    [hf : {"ok", "non2xx", "throws"},
     poll : {"image", "notImage", "non2xx", "throws"},
     openai : {"url", "noUrl", "non2xx", "throws"}]

\* Math.floor(Math.random() * 1000000)
Seeds == {0, 999999}

HuggingFaceDataUrl == <<<<"data:image/png;base64,", 1>>, <<"iVBORw0KGgo=", 1>>>>
OpenAIUrl == Lit("https://oaidalleapiprodscus.blob.core.windows.net/private/img.png")
PlaceholderUrl ==
    <<<<"https://via.placeholder.com/1024x1024/3498db/ffffff?text=", 1>>,
      <<"Image%20generation%20temporarily%20unavailable.%20Trying%20multiple%20free%20services...", 1>>>>
PollinationsPrefix == "https://image.pollinations.ai/prompt/"
PollinationsSuffix == "&model=flux&nologo=true"
PollinationsUrl(sanitizedPrompt, seed) ==
    Lit(PollinationsPrefix) \o encodeURIComponent(sanitizedPrompt)
      \o <<<<"?width=512&height=512&seed=", 1>>, <<ToString(seed), 1>>, <<PollinationsSuffix, 1>>>>

OpenAINote == <<"Note: This used OpenAI DALL-E (paid). Cost: ~$0.04. Add HUGGINGFACE_API_KEY for free images.">>
UnavailableNote == <<"Image generation services temporarily unavailable. We tried Hugging Face and Pollinations.ai free services.">>

\* Mutant: every configured provider is asked, whichever succeeded before it.
ProviderChain_NoShortCircuit(sanitizedPrompt, e, f, seed) ==
    LET callsA == IF e.HUGGINGFACE_API_KEY THEN <<"huggingface">> ELSE <<>>
        callsB == callsA \o <<"pollinations">>
        callsC == IF e.OPENAI_API_KEY THEN callsB \o <<"openai">> ELSE callsB
    IN  IF e.HUGGINGFACE_API_KEY /\ f.hf = "ok"
        THEN AdapterResult("huggingface", HuggingFaceDataUrl, TRUE, <<>>, callsC, sanitizedPrompt)
        ELSE IF f.poll = "image"
        THEN AdapterResult("pollinations", PollinationsUrl(sanitizedPrompt, seed), TRUE, <<>>, callsC, sanitizedPrompt)
        ELSE IF e.OPENAI_API_KEY /\ f.openai = "url"
        THEN AdapterResult("openai", OpenAIUrl, TRUE, OpenAINote, callsC, sanitizedPrompt)
        ELSE AdapterResult("placeholder", PlaceholderUrl, TRUE, UnavailableNote, callsC, sanitizedPrompt)

\* Mutant: with every provider exhausted the chain reports failure.
ProviderChain_FailsWhenExhausted(sanitizedPrompt, e, f, seed) ==
    LET callsA == IF e.HUGGINGFACE_API_KEY THEN <<"huggingface">> ELSE <<>>
        callsB == callsA \o <<"pollinations">>
        callsC == IF e.OPENAI_API_KEY THEN callsB \o <<"openai">> ELSE callsB
    IN  IF e.HUGGINGFACE_API_KEY /\ f.hf = "ok"
        THEN AdapterResult("huggingface", HuggingFaceDataUrl, TRUE, <<>>, callsA, sanitizedPrompt)
        ELSE IF f.poll = "image"
        THEN AdapterResult("pollinations", PollinationsUrl(sanitizedPrompt, seed), TRUE, <<>>, callsB, sanitizedPrompt)
        ELSE IF e.OPENAI_API_KEY /\ f.openai = "url"
        THEN AdapterResult("openai", OpenAIUrl, TRUE, OpenAINote, callsC, sanitizedPrompt)
        ELSE AdapterResult("placeholder", <<>>, FALSE, UnavailableNote, callsC, sanitizedPrompt)

\* Mutant: the paid provider is asked before the free Pollinations service.
ProviderChain_OpenAIBeforePollinations(sanitizedPrompt, e, f, seed) ==
    LET callsA == IF e.HUGGINGFACE_API_KEY THEN <<"huggingface">> ELSE <<>>
        callsC == IF e.OPENAI_API_KEY THEN callsA \o <<"openai">> ELSE callsA
        callsB == callsC \o <<"pollinations">>
    IN  IF e.HUGGINGFACE_API_KEY /\ f.hf = "ok"
        THEN AdapterResult("huggingface", HuggingFaceDataUrl, TRUE, <<>>, callsA, sanitizedPrompt)
        ELSE IF e.OPENAI_API_KEY /\ f.openai = "url"
        THEN AdapterResult("openai", OpenAIUrl, TRUE, OpenAINote, callsC, sanitizedPrompt)
        ELSE IF f.poll = "image"
        THEN AdapterResult("pollinations", PollinationsUrl(sanitizedPrompt, seed), TRUE, <<>>, callsB, sanitizedPrompt)
        ELSE AdapterResult("placeholder", PlaceholderUrl, TRUE, UnavailableNote, callsB, sanitizedPrompt)

\* The provider chain, after the early returns: Hugging Face (if its key is
\* set), then Pollinations, then OpenAI (if its key is set), then the placeholder.
ProviderChain(sanitizedPrompt, e, f, seed) ==
    LET callsA == IF e.HUGGINGFACE_API_KEY THEN <<"huggingface">> ELSE <<>>
        callsB == callsA \o <<"pollinations">>
        callsC == IF e.OPENAI_API_KEY THEN callsB \o <<"openai">> ELSE callsB
    IN  IF e.HUGGINGFACE_API_KEY /\ f.hf = "ok"
        THEN AdapterResult("huggingface", HuggingFaceDataUrl, TRUE, <<>>, callsA, sanitizedPrompt)
        ELSE IF f.poll = "image"
        THEN AdapterResult("pollinations", PollinationsUrl(sanitizedPrompt, seed), TRUE, <<>>, callsB, sanitizedPrompt)
        ELSE IF e.OPENAI_API_KEY /\ f.openai = "url"
        THEN AdapterResult("openai", OpenAIUrl, TRUE, OpenAINote, callsC, sanitizedPrompt)
        ELSE AdapterResult("placeholder", PlaceholderUrl, TRUE, UnavailableNote, callsC, sanitizedPrompt)

\* Mutant: a missing Hugging Face key is reported as a failure.
generateGeminiImage_RequiresHuggingFaceKey(prompt, e, f, seed) ==
    LET sanitizedPrompt == sanitizeUserInput(prompt) IN
    IF ~e.GEMINI_API_KEY \/ ~e.HUGGINGFACE_API_KEY
    THEN AdapterResult("notConfigured", <<>>, FALSE, <<"Gemini API key not configured">>, <<>>, <<>>)
    ELSE IF sanitizedPrompt = <<>>
    THEN AdapterResult("emptyPrompt", <<>>, FALSE, <<"Prompt cannot be empty">>, <<>>, <<>>)
    ELSE IF Length(sanitizedPrompt) > AdapterMaxLen
    THEN AdapterResult("tooLong", <<>>, FALSE, <<"Prompt is too long (max 2000 characters)">>, <<>>, <<>>)
    ELSE ProviderChain(sanitizedPrompt, e, f, seed)

generateGeminiImage(prompt, e, f, seed) ==
    LET sanitizedPrompt == sanitizeUserInput(prompt) IN
    IF ~e.GEMINI_API_KEY
    THEN AdapterResult("notConfigured", <<>>, FALSE, <<"Gemini API key not configured">>, <<>>, <<>>)
    ELSE IF sanitizedPrompt = <<>>
    THEN AdapterResult("emptyPrompt", <<>>, FALSE, <<"Prompt cannot be empty">>, <<>>, <<>>)
    ELSE IF Length(sanitizedPrompt) > AdapterMaxLen
    THEN AdapterResult("tooLong", <<>>, FALSE, <<"Prompt is too long (max 2000 characters)">>, <<>>, <<>>)
    ELSE ProviderChain(sanitizedPrompt, e, f, seed)


\* ------------------------------------------------------------------- inputs
Reqs == 1..MaxReqs
Ops == {"getChatHistory", "sendMessage", "generateImage", "clearHistory"}
UserIds == {"", "u1"}
AllUserIds == UserIds \cup {"u2"}

\* Messages and prompts a caller may send.
Hello == <<<<"a", 5>>>>
Blank == <<<<" ", 3>>>>
AngleSpaceText == <<<<"<", 1>>, <<" ", 1>>, <<"a", 1>>>>
Inputs ==
    { <<>>,                                 \* ""
      Hello,                                \* "aaaaa"
      Blank,                                \* "   "
      AngleSpaceText,                       \* "< a"
      <<<<"a", MaxPromptLen + 1>>>>,        \* too long for a prompt only
      <<<<"a", MaxMessageLen + 1>>>> }      \* too long for both

\* Call 1 is drawn from every input; the calls that overlap it come from an
\* identified user u1 sending Hello.
CallContexts(r) == IF r = 1 THEN BOOLEAN ELSE {TRUE}
CallUserIds(r) == IF r = 1 THEN UserIds ELSE {"u1"}
CallInputs(r, op) ==
    IF op \in {"sendMessage", "generateImage"}
    THEN (IF r = 1 THEN Inputs ELSE {Hello})
    ELSE {<<>>}

\* -------------------------------------------------------------------- state
VARIABLES
    env,           \* process.env credentials
    auth,          \* the session cookies, the clock and what the home page rendered
    chat_history,  \* the chat_history table: a set of rows
    nextSeq,       \* the table's next id / created_at
    req,           \* the RPC calls: req[r] is call r's position and locals
    probe,         \* one adapter call on its own: its arguments and its result
    lastWrite,     \* per user id, the kind of the last write the table took
    writeCount,    \* how many writes the table has taken
    client         \* the chat component in the browser

vars == <<env, auth, chat_history, nextSeq, req, probe, lastWrite, writeCount, client>>

NoRow == [id |-> 0, user_id |-> "", created_at |-> 0, role |-> "none",
          content |-> <<>>, content_type |-> "none"]

\* A row as the table stores it: id and created_at are assigned on insert.
ChatMessage(message, seq) ==
    [id |-> seq, user_id |-> message.user_id, created_at |-> seq, role |-> message.role,
     content |-> message.content, content_type |-> message.content_type]

NewMessage(userId, role, content, contentType) ==
    [user_id |-> userId, role |-> role, content |-> content, content_type |-> contentType]

\* What a call returns.  status is "pending" until the call settles.
Pending ==
    [status |-> "pending", code |-> "", message |-> <<>>,
     aiResponse |-> <<>>, geminiSuccess |-> FALSE, geminiError |-> <<>>,
     imageUrl |-> <<>>, prompt |-> <<>>, messages |-> <<>>, count |-> 0]

TRPCError(code, message) ==
    [Pending EXCEPT !.status = "error", !.code = code, !.message = message]

Idle ==
    [op |-> "none", pc |-> "idle", ctxUser |-> FALSE, userId |-> "", input |-> <<>>,
     sanitized |-> <<>>, userMessage |-> NoRow, aiMessage |-> NoRow,
     adapter |-> NoAdapterResult, upstream |-> NoUpstream,
     inserted |-> <<>>, apologyAttempts |-> 0,
     fullResponse |-> <<>>, events |-> <<>>, pulled |-> 0,
     sawWrites |-> 0, sawLastWrite |-> "none",
     result |-> Pending]

NoFetch == [hf |-> "none", poll |-> "none", openai |-> "none"]

NoProbe == [fn |-> "none", pc |-> "none", prompt |-> <<>>, fetch |-> NoFetch, seed |-> 0,
            upstream |-> NoUpstream, out |-> NoAdapterResult, clean |-> <<>>]

\* No write has reached the table yet.
NoWrites == [u \in AllUserIds |-> "none"]

\* The component is not mounted.
NoClient == [mounted |-> FALSE]

\* No request has reached the auth routes or the home page.
NoAuth == [configured |-> FALSE]

Init ==
    /\ env \in EnvSpace
    /\ chat_history = {}
    /\ nextSeq = 1
    /\ req = [r \in Reqs |-> Idle]
    /\ probe = NoProbe
    /\ lastWrite = NoWrites
    /\ writeCount = 0
    /\ client = NoClient
    /\ auth = NoAuth

\* --------------------------------------------------------- the table
RowsOf(userId) == {m \in chat_history : m.user_id = userId}

\* .order('created_at', { ascending: true })
RECURSIVE OrderByCreatedAt(_)
OrderByCreatedAt(rows) ==
    IF rows = {} THEN <<>>
    ELSE LET first == CHOOSE m \in rows : \A n \in rows : m.created_at <= n.created_at
         IN  <<first>> \o OrderByCreatedAt(rows \ {first})

\* Mutant: the select has no user filter.
getMessagesForUser_AllUsers(userId) == OrderByCreatedAt(chat_history)

getMessagesForUser(userId) == OrderByCreatedAt(RowsOf(userId))

\* The row the table makes of `message` if it is inserted now.
InsertedRow(message) == ChatMessage(message, nextSeq)

\* Mutant: an insert replaces the rows its user already has in that role.
AddMessageOk_Replaces(r, message, after) ==
    /\ chat_history' = {m \in chat_history : m.user_id # message.user_id \/ m.role # message.role}
                          \cup {InsertedRow(message)}
    /\ nextSeq' = nextSeq + 1
    /\ lastWrite' = [lastWrite EXCEPT ![message.user_id] = "insert"]
    /\ writeCount' = writeCount + 1
    /\ req' = [req EXCEPT ![r] = [after EXCEPT !.inserted = Append(@, InsertedRow(message))]]

\* chatHistoryService.addMessage when the insert succeeds: the table gains the
\* row and call r goes on as `after`.
AddMessageOk(r, message, after) ==
    /\ chat_history' = chat_history \cup {InsertedRow(message)}
    /\ nextSeq' = nextSeq + 1
    /\ lastWrite' = [lastWrite EXCEPT ![message.user_id] = "insert"]
    /\ writeCount' = writeCount + 1
    /\ req' = [req EXCEPT ![r] = [after EXCEPT !.inserted = Append(@, InsertedRow(message))]]

\* chatHistoryService.addMessage when the store reports an error: it throws,
\* and call r goes on as `after`.
AddMessageThrows(r, after) ==
    /\ UNCHANGED <<chat_history, nextSeq, lastWrite, writeCount>>
    /\ req' = [req EXCEPT ![r] = after]

\* Mutant: the delete has no user filter.
clearUserHistory_DeletesAll(userId) == {}

\* chatHistoryService.clearUserHistory: .delete().eq('user_id', userId)
clearUserHistory(userId) == chat_history \ RowsOf(userId)

\* ---------------------------------------------------------- input schemas
\* z.string().min(1).max(2000) / z.string().min(1).max(1000) / z.string().min(1)
MessageSchemaOk(message) == Length(message) >= 1 /\ Length(message) <= MaxMessageLen
PromptSchemaOk(prompt) == Length(prompt) >= 1 /\ Length(prompt) <= MaxPromptLen

InputSchemaOk(op, input, userId) ==
    CASE op = "sendMessage" -> MessageSchemaOk(input)
      [] op = "sendMessageStream" -> MessageSchemaOk(input)
      [] op = "generateImage" -> PromptSchemaOk(input) /\ userId # ""
      [] OTHER -> TRUE

\* The middleware chain of a procedure.  Every procedure of the router is built
\* on t.procedure, which has none: isAuthenticated is defined but never used.
MiddlewareOk(op, ctxUser) == TRUE

\* isAuthenticated, as protectedProcedure would apply it
isAuthenticated(ctxUser) == ctxUser

FirstPc(op) ==
    CASE op = "sendMessage" -> "addUserMessage"
      [] op = "sendMessageStream" -> "streamAddUserMessage"
      [] op = "generateImage" -> "addUserMessage"
      [] op = "getChatHistory" -> "select"
      [] OTHER -> "delete"

InternalError(message) == TRPCError("INTERNAL_SERVER_ERROR", message)

HandlerApologyText == Lit("I apologize, but I encountered an error processing your message. Please try again.")

\* ------------------------------------------------------------------ actions
\* A call arrives: the middleware and the input schema run, then the handler
\* runs up to its first await.
Arrive(op, ctxUser, userId, input) ==
    LET call == [Idle EXCEPT !.op = op, !.ctxUser = ctxUser, !.userId = userId,
                             !.input = input]
    IN  IF ~MiddlewareOk(op, ctxUser)
        THEN [call EXCEPT !.pc = "done",
                          !.result = TRPCError("UNAUTHORIZED", <<"You must be logged in to access this resource">>)]
        ELSE IF ~InputSchemaOk(op, input, userId)
        THEN [call EXCEPT !.pc = "done",
                          !.result = TRPCError("BAD_REQUEST", <<"Input validation failed">>)]
        ELSE [call EXCEPT !.pc = FirstPc(op),
                          !.sanitized = IF op \in {"sendMessage", "sendMessageStream", "generateImage"}
                                        THEN sanitizeUserInput(input) ELSE <<>>]

Call(r) ==
    /\ req[r].pc = "idle"
    /\ \E op \in Ops, ctxUser \in CallContexts(r), userId \in CallUserIds(r) :
       \E input \in CallInputs(r, op) :
          req' = [req EXCEPT ![r] = Arrive(op, ctxUser, userId, input)]
    /\ UNCHANGED <<env, auth, chat_history, nextSeq, probe, lastWrite, writeCount, client>>

\* Mutant: the user row holds the message as sent, not sanitized.
SendMessage_AddUserMessage_StoresRaw(r) ==
    LET message == NewMessage(req[r].userId, "user", req[r].input, "text") IN
    /\ req[r].op = "sendMessage" /\ req[r].pc = "addUserMessage"
    /\ \/ AddMessageOk(r, message,
              [req[r] EXCEPT !.userMessage = InsertedRow(message), !.pc = "gemini"])
       \/ AddMessageThrows(r, [req[r] EXCEPT !.pc = "addErrorMessage"])
    /\ UNCHANGED <<env, auth, probe, client>>

\* sendMessage, step 1: the user row's insert settles.
SendMessage_AddUserMessage(r) ==
    LET message == NewMessage(req[r].userId, "user", req[r].sanitized, "text") IN
    /\ req[r].op = "sendMessage" /\ req[r].pc = "addUserMessage"
    /\ \/ AddMessageOk(r, message,
              [req[r] EXCEPT !.userMessage = InsertedRow(message), !.pc = "gemini"])
       \/ AddMessageThrows(r, [req[r] EXCEPT !.pc = "addErrorMessage"])
    /\ UNCHANGED <<env, auth, probe, client>>

\* sendMessage, step 2: generateGeminiResponse settles.
SendMessage_Gemini(r) ==
    /\ req[r].op = "sendMessage" /\ req[r].pc = "gemini"
    /\ \E upstream \in UpstreamText :
          LET geminiResponse == generateGeminiResponse(req[r].sanitized, env, upstream) IN
          req' = [req EXCEPT ![r] =
                    [@ EXCEPT !.adapter = geminiResponse,
                              !.upstream = IF geminiResponse.calls = <<>> THEN NoUpstream ELSE upstream,
                              !.pc = "addAiMessage"]]
    /\ UNCHANGED <<env, auth, chat_history, nextSeq, probe, lastWrite, writeCount, client>>

\* Mutant: the handler fails after the model row went in, and so reaches the
\* catch with a model row already inserted.
SendMessage_AddAiMessage_ThenThrows(r) ==
    LET message == NewMessage(req[r].userId, "model", req[r].adapter.text, "text") IN
    /\ req[r].op = "sendMessage" /\ req[r].pc = "addAiMessage"
    /\ \/ AddMessageOk(r, message,
              [req[r] EXCEPT !.aiMessage = InsertedRow(message), !.pc = "addErrorMessage"])
       \/ AddMessageThrows(r, [req[r] EXCEPT !.pc = "addErrorMessage"])
    /\ UNCHANGED <<env, auth, probe, client>>

\* sendMessage, steps 3 and 4: the model row's insert settles.
SendMessage_AddAiMessage(r) ==
    LET message == NewMessage(req[r].userId, "model", req[r].adapter.text, "text") IN
    /\ req[r].op = "sendMessage" /\ req[r].pc = "addAiMessage"
    /\ \/ AddMessageOk(r, message,
              [req[r] EXCEPT !.aiMessage = InsertedRow(message), !.pc = "done",
                             !.result = [Pending EXCEPT !.status = "success",
                                                        !.aiResponse = req[r].adapter.text,
                                                        !.geminiSuccess = req[r].adapter.success,
                                                        !.geminiError = req[r].adapter.error]])
       \/ AddMessageThrows(r, [req[r] EXCEPT !.pc = "addErrorMessage"])
    /\ UNCHANGED <<env, auth, probe, client>>

\* Mutant: a failed apology insert is thrown to the caller in place of the
\* first error.
SendMessage_AddErrorMessage_Rethrows(r) ==
    LET message == NewMessage(req[r].userId, "model", HandlerApologyText, "text")
        after == [req[r] EXCEPT !.apologyAttempts = @ + 1, !.pc = "done",
                                !.result = InternalError(<<"Failed to process your message">>)]
    IN
    /\ req[r].op = "sendMessage" /\ req[r].pc = "addErrorMessage"
    /\ \/ AddMessageOk(r, message, after)
       \/ AddMessageThrows(r, [after EXCEPT !.result = InternalError(<<"Failed to save error message">>)])
    /\ UNCHANGED <<env, auth, probe, client>>

\* sendMessage, catch: the apology row's insert settles, then the error is thrown.
SendMessage_AddErrorMessage(r) ==
    LET message == NewMessage(req[r].userId, "model", HandlerApologyText, "text")
        after == [req[r] EXCEPT !.apologyAttempts = @ + 1, !.pc = "done",
                                !.result = InternalError(<<"Failed to process your message">>)]
    IN
    /\ req[r].op = "sendMessage" /\ req[r].pc = "addErrorMessage"
    /\ \/ AddMessageOk(r, message, after)
       \/ AddMessageThrows(r, after)
    /\ UNCHANGED <<env, auth, probe, client>>

\* generateImage, step 1: the prompt row's insert settles.
GenerateImage_AddUserMessage(r) ==
    LET message == NewMessage(req[r].userId, "user", req[r].sanitized, "text") IN
    /\ req[r].op = "generateImage" /\ req[r].pc = "addUserMessage"
    /\ \/ AddMessageOk(r, message,
              [req[r] EXCEPT !.userMessage = InsertedRow(message), !.pc = "image"])
       \/ AddMessageThrows(r, [req[r] EXCEPT !.pc = "done",
                                             !.result = InternalError(<<"Failed to generate image">>)])
    /\ UNCHANGED <<env, auth, probe, client>>

\* Mutant: a failed image result is stored as an apology row, as sendMessage
\* stores a failed text result.
GenerateImage_Image_StoresApology(r) ==
    /\ req[r].op = "generateImage" /\ req[r].pc = "image"
    /\ \E f \in FetchSpace, seed \in Seeds :
          LET imageResponse == generateGeminiImage(req[r].sanitized, env, f, seed) IN
          IF ~imageResponse.success
          THEN AddMessageOk(r, NewMessage(req[r].userId, "model", HandlerApologyText, "text"),
                   [req[r] EXCEPT !.adapter = imageResponse, !.pc = "done",
                                  !.result = InternalError(imageResponse.error)])
          ELSE /\ req' = [req EXCEPT ![r] =
                            [@ EXCEPT !.adapter = imageResponse, !.pc = "addAiMessage"]]
               /\ UNCHANGED <<chat_history, nextSeq, lastWrite, writeCount>>
    /\ UNCHANGED <<env, auth, probe, client>>

\* generateImage, step 2: generateGeminiImage settles; the handler throws if
\* it reports failure.
GenerateImage_Image(r) ==
    /\ req[r].op = "generateImage" /\ req[r].pc = "image"
    /\ \E f \in FetchSpace, seed \in Seeds :
          LET imageResponse == generateGeminiImage(req[r].sanitized, env, f, seed) IN
          req' = [req EXCEPT ![r] =
                    IF ~imageResponse.success
                    THEN [@ EXCEPT !.adapter = imageResponse, !.pc = "done",
                                   !.result = InternalError(IF imageResponse.error # <<>>
                                                            THEN imageResponse.error
                                                            ELSE <<"Failed to generate image">>)]
                    ELSE [@ EXCEPT !.adapter = imageResponse, !.pc = "addAiMessage"]]
    /\ UNCHANGED <<env, auth, chat_history, nextSeq, probe, lastWrite, writeCount, client>>

\* Mutant: the image URL is stored as a text row.
GenerateImage_AddAiMessage_AsText(r) ==
    LET message == NewMessage(req[r].userId, "model", req[r].adapter.text, "text") IN
    /\ req[r].op = "generateImage" /\ req[r].pc = "addAiMessage"
    /\ \/ AddMessageOk(r, message,
              [req[r] EXCEPT !.aiMessage = InsertedRow(message), !.pc = "done",
                             !.result = [Pending EXCEPT !.status = "success",
                                                        !.imageUrl = req[r].adapter.text,
                                                        !.prompt = req[r].sanitized]])
       \/ AddMessageThrows(r, [req[r] EXCEPT !.pc = "done",
                                             !.result = InternalError(<<"Failed to generate image">>)])
    /\ UNCHANGED <<env, auth, probe, client>>

\* generateImage, steps 3 and 4: the image row's insert settles.
GenerateImage_AddAiMessage(r) ==
    LET message == NewMessage(req[r].userId, "model", req[r].adapter.text, "image") IN
    /\ req[r].op = "generateImage" /\ req[r].pc = "addAiMessage"
    /\ \/ AddMessageOk(r, message,
              [req[r] EXCEPT !.aiMessage = InsertedRow(message), !.pc = "done",
                             !.result = [Pending EXCEPT !.status = "success",
                                                        !.imageUrl = req[r].adapter.text,
                                                        !.prompt = req[r].sanitized]])
       \/ AddMessageThrows(r, [req[r] EXCEPT !.pc = "done",
                                             !.result = InternalError(<<"Failed to generate image">>)])
    /\ UNCHANGED <<env, auth, probe, client>>

\* Mutant: a read consumes the rows it returns.
GetChatHistory_Select_Consumes(r) ==
    /\ req[r].op = "getChatHistory" /\ req[r].pc = "select"
    /\ LET messages == getMessagesForUser(req[r].userId) IN
       req' = [req EXCEPT ![r] =
                 [@ EXCEPT !.pc = "done",
                           !.sawWrites = writeCount,
                           !.sawLastWrite = lastWrite[req[r].userId],
                           !.result = [Pending EXCEPT !.status = "success",
                                                      !.messages = messages,
                                                      !.count = Len(messages)]]]
    /\ chat_history' = chat_history \ RowsOf(req[r].userId)
    /\ UNCHANGED <<env, auth, nextSeq, probe, lastWrite, writeCount, client>>

\* getChatHistory: the select settles.
GetChatHistory_Select(r) ==
    /\ req[r].op = "getChatHistory" /\ req[r].pc = "select"
    /\ \/ LET messages == getMessagesForUser(req[r].userId) IN
          req' = [req EXCEPT ![r] =
                    [@ EXCEPT !.pc = "done",
                              !.sawWrites = writeCount,
                              !.sawLastWrite = lastWrite[req[r].userId],
                              !.result = [Pending EXCEPT !.status = "success",
                                                         !.messages = messages,
                                                         !.count = Len(messages)]]]
       \/ req' = [req EXCEPT ![r] =
                    [@ EXCEPT !.pc = "done",
                              !.result = InternalError(<<"Failed to fetch chat history">>)]]
    /\ UNCHANGED <<env, auth, chat_history, nextSeq, probe, lastWrite, writeCount, client>>

\* clearHistory: the delete settles.
ClearHistory_Delete(r) ==
    /\ req[r].op = "clearHistory" /\ req[r].pc = "delete"
    /\ \/ /\ chat_history' = clearUserHistory(req[r].userId)
          /\ lastWrite' = [lastWrite EXCEPT ![req[r].userId] = "delete"]
          /\ writeCount' = writeCount + 1
          /\ req' = [req EXCEPT ![r] =
                       [@ EXCEPT !.pc = "done", !.result = [Pending EXCEPT !.status = "success"]]]
       \/ /\ UNCHANGED <<chat_history, lastWrite, writeCount>>
          /\ req' = [req EXCEPT ![r] =
                       [@ EXCEPT !.pc = "done",
                                 !.result = InternalError(<<"Failed to clear chat history">>)]]
    /\ UNCHANGED <<env, auth, nextSeq, probe, client>>

\* ------------------------------------------------------- sendMessageStream
\* The events the subscription yields.  chunk is data.chunk of a chunk event
\* and data.fullResponse of a complete event; saved tells if data carries a
\* stored row.
StreamEvent(type, chunk, error, saved) ==
    [type |-> type, chunk |-> chunk, error |-> error, saved |-> saved]

\* The subscription's generator has returned: it threw nothing.
StreamReturned == [Pending EXCEPT !.status = "success"]

\* Fragments the upstream stream may hand to call r, and how many items it
\* hands out at most before it ends or fails.
MaxChunks == 2
StreamFragments(r) == IF r = 1 THEN Fragments ELSE {Lit("Hi")}
StreamItems(r) == IF r = 1 THEN MaxChunks ELSE 1
StreamFailuresOf(r) ==
    IF r = 1 THEN StreamFailures ELSE {u \in StreamFailures : Includes(u.message, "quota")}

\* Step 1: the user row's insert settles; userMessageSaved is yielded.
Stream_AddUserMessage(r) ==
    LET message == NewMessage(req[r].userId, "user", req[r].sanitized, "text") IN
    /\ req[r].op = "sendMessageStream" /\ req[r].pc = "streamAddUserMessage"
    /\ \/ AddMessageOk(r, message,
              [req[r] EXCEPT !.userMessage = InsertedRow(message), !.pc = "stream",
                             !.events = Append(@, StreamEvent("userMessageSaved", <<>>, <<>>, TRUE))])
       \/ AddMessageThrows(r, [req[r] EXCEPT !.pc = "streamCatch",
                                             !.upstream = [NoUpstream EXCEPT !.kind = "store"]])
    /\ UNCHANGED <<env, auth, probe, client>>

\* Step 2, one turn of the for-await loop: the generator yields a fragment,
\* which is passed on as a chunk event, or skips an upstream chunk whose text()
\* throws, or yields its last chunk.
Stream_Pull(r) ==
    /\ req[r].op = "sendMessageStream" /\ req[r].pc = "stream"
    /\ IF ~env.GEMINI_API_KEY
       THEN req' = [req EXCEPT ![r] = [@ EXCEPT !.adapter = StreamNotConfigured,
                                                !.pc = "streamAddErrorMessage"]]
       ELSE \/ /\ req[r].pulled < StreamItems(r)
               /\ \E chunk \in StreamFragments(r) :
                     req' = [req EXCEPT ![r] =
                        [@ EXCEPT !.pulled = @ + 1,
                                  !.fullResponse = Concat(@, chunk),
                                  !.events = Append(@, StreamEvent("chunk", chunk, <<>>, FALSE))]]
            \/ /\ req[r].pulled < StreamItems(r)
               /\ req' = [req EXCEPT ![r] = [@ EXCEPT !.pulled = @ + 1]]
            \/ req' = [req EXCEPT ![r] = [@ EXCEPT !.adapter = StreamDone(req[r].sanitized),
                                                   !.pc = "streamAddAiMessage"]]
            \/ \E failure \in StreamFailuresOf(r) :
                  req' = [req EXCEPT ![r] =
                     [@ EXCEPT !.adapter = StreamErrorChunk(req[r].sanitized, failure),
                               !.upstream = failure,
                               !.pc = "streamAddErrorMessage"]]
    /\ UNCHANGED <<env, auth, chat_history, nextSeq, probe, lastWrite, writeCount, client>>

\* Mutant: the loop goes on after complete has been yielded.
Stream_AddAiMessage_KeepsStreaming(r) ==
    LET message == NewMessage(req[r].userId, "model", req[r].fullResponse, "text") IN
    /\ req[r].op = "sendMessageStream" /\ req[r].pc = "streamAddAiMessage"
    /\ \/ AddMessageOk(r, message,
              [req[r] EXCEPT !.aiMessage = InsertedRow(message), !.pc = "streamAddErrorMessage",
                             !.events = Append(@, StreamEvent("complete", req[r].fullResponse, <<>>, TRUE))])
       \/ AddMessageThrows(r, [req[r] EXCEPT !.pc = "streamCatch",
                                             !.upstream = [NoUpstream EXCEPT !.kind = "store"]])
    /\ UNCHANGED <<env, auth, probe, client>>

\* Mutant: the model row holds the user's text, not the accumulated response.
Stream_AddAiMessage_StoresUserText(r) ==
    LET message == NewMessage(req[r].userId, "model", req[r].sanitized, "text") IN
    /\ req[r].op = "sendMessageStream" /\ req[r].pc = "streamAddAiMessage"
    /\ \/ AddMessageOk(r, message,
              [req[r] EXCEPT !.aiMessage = InsertedRow(message), !.pc = "done",
                             !.events = Append(@, StreamEvent("complete", req[r].fullResponse, <<>>, TRUE)),
                             !.result = StreamReturned])
       \/ AddMessageThrows(r, [req[r] EXCEPT !.pc = "streamCatch",
                                             !.upstream = [NoUpstream EXCEPT !.kind = "store"]])
    /\ UNCHANGED <<env, auth, probe, client>>

\* Step 3, after the done marker of a successful stream: the insert of the
\* accumulated response settles; complete is yielded, or the insert's error
\* reaches the outer catch.
Stream_AddAiMessage(r) ==
    LET message == NewMessage(req[r].userId, "model", req[r].fullResponse, "text") IN
    /\ req[r].op = "sendMessageStream" /\ req[r].pc = "streamAddAiMessage"
    /\ \/ AddMessageOk(r, message,
              [req[r] EXCEPT !.aiMessage = InsertedRow(message), !.pc = "done",
                             !.events = Append(@, StreamEvent("complete", req[r].fullResponse, <<>>, TRUE)),
                             !.result = StreamReturned])
       \/ AddMessageThrows(r, [req[r] EXCEPT !.pc = "streamCatch",
                                             !.upstream = [NoUpstream EXCEPT !.kind = "store"]])
    /\ UNCHANGED <<env, auth, probe, client>>

\* After the last chunk of a failed stream: the insert of its apology settles;
\* error is yielded either way.
Stream_AddErrorMessage(r) ==
    LET errorMessage == IF req[r].adapter.text # <<>> THEN req[r].adapter.text
                        ELSE HandlerApologyText
        message == NewMessage(req[r].userId, "model", errorMessage, "text")
        error == IF req[r].adapter.error # <<>> THEN req[r].adapter.error ELSE <<"Unknown error">>
    IN
    /\ req[r].op = "sendMessageStream" /\ req[r].pc = "streamAddErrorMessage"
    /\ \/ AddMessageOk(r, message,
              [req[r] EXCEPT !.aiMessage = InsertedRow(message), !.pc = "done",
                             !.apologyAttempts = @ + 1,
                             !.events = Append(@, StreamEvent("error", <<>>, error, TRUE)),
                             !.result = StreamReturned])
       \/ AddMessageThrows(r,
              [req[r] EXCEPT !.pc = "done",
                             !.apologyAttempts = @ + 1,
                             !.events = Append(@, StreamEvent("error", <<>>, <<"Failed to save error message">>, FALSE)),
                             !.result = StreamReturned])
    /\ UNCHANGED <<env, auth, probe, client>>

\* The outer catch: the apology's insert settles; error is yielded either way.
Stream_Catch(r) ==
    LET message == NewMessage(req[r].userId, "model", HandlerApologyText, "text") IN
    /\ req[r].op = "sendMessageStream" /\ req[r].pc = "streamCatch"
    /\ \/ AddMessageOk(r, message,
              [req[r] EXCEPT !.aiMessage = InsertedRow(message), !.pc = "done",
                             !.apologyAttempts = @ + 1,
                             !.events = Append(@, StreamEvent("error", <<>>, <<"store", "error">>, TRUE)),
                             !.result = StreamReturned])
       \/ AddMessageThrows(r,
              [req[r] EXCEPT !.pc = "done",
                             !.apologyAttempts = @ + 1,
                             !.events = Append(@, StreamEvent("error", <<>>, <<"Failed to save error message">>, FALSE)),
                             !.result = StreamReturned])
    /\ UNCHANGED <<env, auth, probe, client>>

Next ==
    \E r \in Reqs :
       \/ Call(r)
       \/ SendMessage_AddUserMessage(r)
       \/ SendMessage_Gemini(r)
       \/ SendMessage_AddAiMessage(r)
       \/ SendMessage_AddErrorMessage(r)
       \/ GenerateImage_AddUserMessage(r)
       \/ GenerateImage_Image(r)
       \/ GenerateImage_AddAiMessage(r)
       \/ GetChatHistory_Select(r)
       \/ ClearHistory_Delete(r)

Spec == Init /\ [][Next]_vars


\* ------------------------------------------------ streaming calls only
\* Up to MaxReqs overlapping sendMessageStream subscriptions.
CallStream(r) ==
    /\ req[r].pc = "idle"
    /\ \E ctxUser \in CallContexts(r), userId \in CallUserIds(r) :
       \E input \in CallInputs(r, "sendMessage") :
          req' = [req EXCEPT ![r] = Arrive("sendMessageStream", ctxUser, userId, input)]
    /\ UNCHANGED <<env, auth, chat_history, nextSeq, probe, lastWrite, writeCount, client>>

NextStream ==
    \E r \in Reqs :
       \/ CallStream(r)
       \/ Stream_AddUserMessage(r)
       \/ Stream_Pull(r)
       \/ Stream_AddAiMessage(r)
       \/ Stream_AddErrorMessage(r)
       \/ Stream_Catch(r)

\* The streaming procedure reads GEMINI_API_KEY only.
InitStream ==
    /\ Init
    /\ ~env.HUGGINGFACE_API_KEY /\ ~env.OPENAI_API_KEY

SpecStream == InitStream /\ [][NextStream]_vars

\* ------------------------------------------- calls one after another
\* Identified users u1 and u2 call every procedure with a plain message, and a
\* settled call's slot is taken by the next call.  Call 1 is any procedure but
\* the streaming one; the calls that overlap it stream, read or clear a
\* history.  Calls start while the table
\* has handed out at most MaxSeq ids and taken at most MaxWrites writes.
MaxSeq == 2
MaxWrites == 4
AllOps == Ops \cup {"sendMessageStream"}
HistoryUserIds == {"u1", "u2"}
HistoryOps(r) == IF r = 1 THEN Ops ELSE {"getChatHistory", "clearHistory", "sendMessageStream"}

CallHistory(r) ==
    /\ req[r].pc = "idle"
    /\ nextSeq <= MaxSeq /\ writeCount < MaxWrites
    /\ \E op \in HistoryOps(r), userId \in HistoryUserIds :
          req' = [req EXCEPT ![r] =
                    Arrive(op, TRUE, userId,
                           IF op \in {"sendMessage", "sendMessageStream", "generateImage"}
                           THEN Hello ELSE <<>>)]
    /\ UNCHANGED <<env, auth, chat_history, nextSeq, probe, lastWrite, writeCount, client>>

\* The caller has its answer.
Return(r) ==
    /\ req[r].pc = "done"
    /\ req' = [req EXCEPT ![r] = Idle]
    /\ UNCHANGED <<env, auth, chat_history, nextSeq, probe, lastWrite, writeCount, client>>

NextHistory ==
    \E r \in Reqs :
       \/ CallHistory(r)
       \/ Return(r)
       \/ SendMessage_AddUserMessage(r)
       \/ SendMessage_Gemini(r)
       \/ SendMessage_AddAiMessage(r)
       \/ SendMessage_AddErrorMessage(r)
       \/ Stream_AddUserMessage(r)
       \/ Stream_Pull(r)
       \/ Stream_AddAiMessage(r)
       \/ Stream_AddErrorMessage(r)
       \/ Stream_Catch(r)
       \/ GenerateImage_AddUserMessage(r)
       \/ GenerateImage_Image(r)
       \/ GenerateImage_AddAiMessage(r)
       \/ GetChatHistory_Select(r)
       \/ ClearHistory_Delete(r)

InitHistory ==
    /\ Init
    /\ env.GEMINI_API_KEY /\ ~env.HUGGINGFACE_API_KEY /\ ~env.OPENAI_API_KEY

SpecHistory == InitHistory /\ [][NextHistory]_vars

\* ------------------------------------------------------------- the client
\* ChatInterfaceTRPC.  Its texts are sequences of characters.
NoText == <<>>
SpacesText == <<" ", " ">>
HiText == <<"h", "i">>
PaddedHiText == <<" ", "h", "i", " ">>
ImageCatText == <<"/", "i", "m", "a", "g", "e", " ", "c", "a", "t">>
ShoutedImageCatText == <<" ", "/", "I", "M", "A", "G", "E", " ", " ", "c", "a", "t", " ">>
BareImageText == <<"/", "i", "m", "a", "g", "e">>
PaddedBareImageText == <<"/", "I", "m", "a", "g", "e", " ", " ">>
GluedImageText == <<"/", "i", "m", "a", "g", "e", "c", "a", "t">>
PhotoText == <<"p", "h", "o", "t", "o">>
DrawImageText == <<"d", "r", "a", "w", " ", "i", "m", "a", "g", "e">>
DrawNewlineImageText == <<"d", "r", "a", "w", "\n", "i", "m", "a", "g", "e">>
ImagineText == <<"i", "m", "a", "g", "i", "n", "e">>
ClientTexts ==
    { NoText,
      SpacesText,
      HiText,
      PaddedHiText,
      ImageCatText,
      ShoutedImageCatText,
      BareImageText,
      PaddedBareImageText,
      GluedImageText,
      PhotoText,
      DrawImageText,
      DrawNewlineImageText,
      ImagineText }

ImageCommandPrefix == <<"/", "i", "m", "a", "g", "e">>
ImageCommandPrefixLen == 6

LineTerminators == {"\n"}
ClientWhitespace == {" ", "\n"}

\* String.prototype.trim
RECURSIVE ClientTrimStart(_)
ClientTrimStart(t) ==
    IF t # <<>> /\ Head(t) \in ClientWhitespace THEN ClientTrimStart(Tail(t)) ELSE t

RECURSIVE ClientTrimEnd(_)
ClientTrimEnd(t) ==
    IF t # <<>> /\ t[Len(t)] \in ClientWhitespace
    THEN ClientTrimEnd(SubSeq(t, 1, Len(t) - 1)) ELSE t

ClientTrim(t) == ClientTrimEnd(ClientTrimStart(t))

\* String.prototype.toLowerCase, on the letters the texts above are made of
LowerChar(c) ==
    CASE c = "I" -> "i" [] c = "M" -> "m" [] c = "A" -> "a" [] c = "G" -> "g"
      [] c = "E" -> "e" [] OTHER -> c

ToLowerCase(t) == [i \in 1..Len(t) |-> LowerChar(t[i])]

\* String.prototype.startsWith
StartsWith(t, prefix) ==
    Len(t) >= Len(prefix) /\ SubSeq(t, 1, Len(prefix)) = prefix

\* String.prototype.slice(k)
SliceFrom(t, k) == IF Len(t) <= k THEN <<>> ELSE SubSeq(t, k + 1, Len(t))

\* pattern occurs in t at position i
OccursAt(t, pattern, i) ==
    i >= 1 /\ i + Len(pattern) - 1 <= Len(t) /\ SubSeq(t, i, i + Len(pattern) - 1) = pattern

Occurs(t, pattern) == \E i \in 1..Len(t) : OccursAt(t, pattern, i)

ImageVerbs ==
    { <<"c", "r", "e", "a", "t", "e">>, <<"g", "e", "n", "e", "r", "a", "t", "e">>,
      <<"m", "a", "k", "e">>, <<"d", "r", "a", "w">> }
ImageNouns ==
    { <<"p", "i", "c", "t", "u", "r", "e">>, <<"p", "h", "o", "t", "o">>,
      <<"d", "r", "a", "w", "i", "n", "g">> }
ImageWord == <<"i", "m", "a", "g", "e">>

\* t.match(/(create|generate|make|draw).*image|picture|photo|drawing/): one of
\* the nouns anywhere, or a verb with "image" after it on the same line.
MatchesImageRequest(t) ==
    \/ \E noun \in ImageNouns : Occurs(t, noun)
    \/ \E verb \in ImageVerbs : \E i, j \in 1..Len(t) :
          /\ OccursAt(t, verb, i)
          /\ OccursAt(t, ImageWord, j)
          /\ i + Len(verb) <= j
          /\ \A k \in (i + Len(verb))..(j - 1) : t[k] \notin LineTerminators

\* Mutant: the command is recognised in lower case only.
IsImageCmd_CaseSensitive(newMessage) == StartsWith(ClientTrim(newMessage), ImageCommandPrefix)

\* The isImageCommand effect, run after newMessage changes.
IsImageCmd(newMessage) == StartsWith(ToLowerCase(ClientTrim(newMessage)), ImageCommandPrefix)

isLikelyImageRequest(c) ==
    ~c.isImageCommand /\ MatchesImageRequest(ToLowerCase(ClientTrim(c.newMessage)))

\* What a handler run saw and was answered: kept for the claims.
NoSubmit == [via |-> "none", text |-> <<>>, dialog |-> "none", callsBefore |-> 0]

MountedClient(userId) ==
    [mounted |-> TRUE, userId |-> userId, newMessage |-> <<>>, isImageCommand |-> FALSE,
     isTyping |-> FALSE, pending |-> "none", clearPending |-> FALSE,
     calls |-> <<>>, clearCalls |-> <<>>, refetches |-> 0, handled |-> 0,
     confirmed |-> 0, cancelled |-> 0, lastSubmit |-> NoSubmit, lastSettle |-> "none"]

\* setNewMessage, with the isImageCommand effect that follows the render
SetNewMessage(c, text) == [c EXCEPT !.newMessage = text, !.isImageCommand = IsImageCmd(text)]

RpcCall(op, text, userId) == [op |-> op, text |-> text, userId |-> userId]

\* The textarea and the Send button are disabled while a call is pending or the
\* typing indicator shows.
InputEnabled(c) == c.pending = "none" /\ ~c.isTyping
SendEnabled(c) == ClientTrim(c.newMessage) # <<>> /\ InputEnabled(c)

\* Mutant: the message is sent as typed.
sendMessage_SendsUntrimmed(c, via, dialog) ==
    LET trimmed == ClientTrim(c.newMessage)
        seen == [c EXCEPT !.handled = @ + 1,
                          !.lastSubmit = [via |-> via, text |-> c.newMessage,
                                          dialog |-> IF trimmed # <<>> /\ isLikelyImageRequest(c)
                                                     THEN (IF dialog THEN "accepted" ELSE "declined")
                                                     ELSE "none",
                                          callsBefore |-> Len(c.calls)]]
        prompt == ClientTrim(SliceFrom(trimmed, ImageCommandPrefixLen))
    IN  IF trimmed = <<>> THEN seen
        ELSE IF isLikelyImageRequest(c) /\ dialog
        THEN SetNewMessage(seen, ImageCommandPrefix \o <<" ">> \o trimmed)
        ELSE IF c.isImageCommand
        THEN (IF prompt = <<>>
              THEN [seen EXCEPT !.isTyping = FALSE]
              ELSE [seen EXCEPT !.isTyping = TRUE, !.pending = "generateImage",
                                !.calls = Append(@, RpcCall("generateImage", prompt, c.userId))])
        ELSE [seen EXCEPT !.isTyping = TRUE, !.pending = "sendMessage",
                          !.calls = Append(@, RpcCall("sendMessage", c.newMessage, c.userId))]

\* Mutant: the typing indicator stays on when the prompt is empty.
sendMessage_KeepsTyping(c, via, dialog) ==
    LET trimmed == ClientTrim(c.newMessage)
        seen == [c EXCEPT !.handled = @ + 1,
                          !.lastSubmit = [via |-> via, text |-> c.newMessage,
                                          dialog |-> IF trimmed # <<>> /\ isLikelyImageRequest(c)
                                                     THEN (IF dialog THEN "accepted" ELSE "declined")
                                                     ELSE "none",
                                          callsBefore |-> Len(c.calls)]]
        prompt == ClientTrim(SliceFrom(trimmed, ImageCommandPrefixLen))
    IN  IF trimmed = <<>> THEN seen
        ELSE IF isLikelyImageRequest(c) /\ dialog
        THEN SetNewMessage(seen, ImageCommandPrefix \o <<" ">> \o trimmed)
        ELSE IF c.isImageCommand
        THEN (IF prompt = <<>>
              THEN [seen EXCEPT !.isTyping = TRUE]
              ELSE [seen EXCEPT !.isTyping = TRUE, !.pending = "generateImage",
                                !.calls = Append(@, RpcCall("generateImage", prompt, c.userId))])
        ELSE [seen EXCEPT !.isTyping = TRUE, !.pending = "sendMessage",
                          !.calls = Append(@, RpcCall("sendMessage", trimmed, c.userId))]

\* sendMessage() of the component, up to its await.  dialog is what
\* window.confirm returns if it is shown.
sendMessage(c, via, dialog) ==
    LET trimmed == ClientTrim(c.newMessage)
        seen == [c EXCEPT !.handled = @ + 1,
                          !.lastSubmit = [via |-> via, text |-> c.newMessage,
                                          dialog |-> IF trimmed # <<>> /\ isLikelyImageRequest(c)
                                                     THEN (IF dialog THEN "accepted" ELSE "declined")
                                                     ELSE "none",
                                          callsBefore |-> Len(c.calls)]]
        prompt == ClientTrim(SliceFrom(trimmed, ImageCommandPrefixLen))
    IN  IF trimmed = <<>> THEN seen
        ELSE IF isLikelyImageRequest(c) /\ dialog
        THEN SetNewMessage(seen, ImageCommandPrefix \o <<" ">> \o trimmed)
        ELSE IF c.isImageCommand
        THEN (IF prompt = <<>>
              THEN [seen EXCEPT !.isTyping = FALSE]
              ELSE [seen EXCEPT !.isTyping = TRUE, !.pending = "generateImage",
                                !.calls = Append(@, RpcCall("generateImage", prompt, c.userId))])
        ELSE [seen EXCEPT !.isTyping = TRUE, !.pending = "sendMessage",
                          !.calls = Append(@, RpcCall("sendMessage", trimmed, c.userId))]

\* How many handler runs the user starts.
MaxHandled == 2

ClientUnchanged == UNCHANGED <<env, auth, chat_history, nextSeq, req, probe, lastWrite, writeCount>>

\* onChange of the textarea
Client_Type ==
    /\ client.mounted /\ InputEnabled(client)
    /\ \E text \in ClientTexts : client' = SetNewMessage(client, text)
    /\ ClientUnchanged

\* onClick of the Send button
Client_ClickSend ==
    /\ client.mounted /\ SendEnabled(client) /\ client.handled < MaxHandled
    /\ \E dialog \in BOOLEAN : client' = sendMessage(client, "click", dialog)
    /\ ClientUnchanged

\* handleKeyPress: Enter without Shift submits; with Shift the handler does
\* nothing.
Client_PressEnter ==
    /\ client.mounted /\ InputEnabled(client) /\ client.handled < MaxHandled
    /\ \E shiftKey \in BOOLEAN, dialog \in BOOLEAN :
          client' = IF shiftKey
                    THEN [client EXCEPT !.handled = @ + 1,
                                        !.lastSubmit = [NoSubmit EXCEPT !.via = "shiftEnter",
                                                                        !.text = client.newMessage,
                                                                        !.callsBefore = Len(client.calls)]]
                    ELSE sendMessage(client, "enter", dialog)
    /\ ClientUnchanged

\* Mutant: a failed mutation leaves the typing indicator on.
Client_MutationSettles_ErrorLeavesTyping ==
    /\ client.mounted /\ client.pending # "none"
    /\ \/ client' = [SetNewMessage(client, <<>>) EXCEPT !.refetches = @ + 1,
                                                       !.isTyping = FALSE,
                                                       !.pending = "none",
                                                       !.lastSettle = "success"]
       \/ client' = [client EXCEPT !.pending = "none", !.lastSettle = "error"]
    /\ ClientUnchanged

\* The pending sendMessage or generateImage mutation settles: onSuccess or
\* onError runs, then the await in sendMessage() returns or throws.
\* lastSettle records which of the two ran.
Client_MutationSettles ==
    /\ client.mounted /\ client.pending # "none"
    /\ \/ client' = [SetNewMessage(client, <<>>) EXCEPT !.refetches = @ + 1,
                                                       !.isTyping = FALSE,
                                                       !.pending = "none",
                                                       !.lastSettle = "success"]
       \/ client' = [client EXCEPT !.isTyping = FALSE, !.pending = "none",
                                   !.lastSettle = "error"]
    /\ ClientUnchanged

\* The slot the component's clearHistory call takes at the server.
ClientSlot == 1

\* Mutant: the mutation is sent whatever window.confirm returns.
Client_ClickClear_IgnoresDialog ==
    /\ client.mounted /\ ~client.clearPending /\ client.handled < MaxHandled
    /\ req[ClientSlot].pc = "idle"
    /\ \E dialog \in BOOLEAN :
          /\ client' = [client EXCEPT !.handled = @ + 1,
                                      !.confirmed = IF dialog THEN @ + 1 ELSE @,
                                      !.cancelled = IF dialog THEN @ ELSE @ + 1,
                                      !.clearPending = TRUE,
                                      !.clearCalls = Append(@, RpcCall("clearHistory", <<>>, client.userId))]
          /\ req' = [req EXCEPT ![ClientSlot] = Arrive("clearHistory", FALSE, client.userId, <<>>)]
    /\ UNCHANGED <<env, auth, chat_history, nextSeq, probe, lastWrite, writeCount>>

\* clearHistory() of the component: the mutation is sent if window.confirm
\* returns true.  The call arrives at the server without identity headers.
Client_ClickClear ==
    /\ client.mounted /\ ~client.clearPending /\ client.handled < MaxHandled
    /\ req[ClientSlot].pc = "idle"
    /\ \E dialog \in BOOLEAN :
          IF dialog
          THEN /\ client' = [client EXCEPT !.handled = @ + 1, !.confirmed = @ + 1,
                                           !.clearPending = TRUE,
                                           !.clearCalls = Append(@, RpcCall("clearHistory", <<>>, client.userId))]
               /\ req' = [req EXCEPT ![ClientSlot] = Arrive("clearHistory", FALSE, client.userId, <<>>)]
          ELSE /\ client' = [client EXCEPT !.handled = @ + 1, !.cancelled = @ + 1]
               /\ UNCHANGED req
    /\ UNCHANGED <<env, auth, chat_history, nextSeq, probe, lastWrite, writeCount>>

\* The clearHistory mutation settles: onSuccess refetches.
Client_ClearSettles ==
    /\ client.mounted /\ client.clearPending /\ req[ClientSlot].pc = "done"
    /\ client' = [client EXCEPT !.clearPending = FALSE,
                                !.refetches = IF req[ClientSlot].result.status = "success"
                                              THEN @ + 1 ELSE @]
    /\ req' = [req EXCEPT ![ClientSlot] = Idle]
    /\ UNCHANGED <<env, auth, chat_history, nextSeq, probe, lastWrite, writeCount>>

\* A clearHistory call that is not the component's: any caller, any user id.
CallClearHistory(r) ==
    /\ r # ClientSlot /\ req[r].pc = "idle" /\ writeCount < MaxWrites
    /\ \E userId \in HistoryUserIds :
          req' = [req EXCEPT ![r] = Arrive("clearHistory", TRUE, userId, <<>>)]
    /\ UNCHANGED <<env, auth, chat_history, nextSeq, probe, lastWrite, writeCount, client>>

NextClient ==
    \/ Client_Type
    \/ Client_ClickSend
    \/ Client_PressEnter
    \/ Client_MutationSettles
    \/ Client_ClickClear
    \/ Client_ClearSettles
    \/ \E r \in Reqs : CallClearHistory(r) \/ ClearHistory_Delete(r)

\* The component is mounted for u1 over a table that holds a row of u1 and a
\* row of u2.
InitClient ==
    /\ env \in EnvSpace
    /\ env.GEMINI_API_KEY /\ ~env.HUGGINGFACE_API_KEY /\ ~env.OPENAI_API_KEY
    /\ chat_history = { ChatMessage(NewMessage("u1", "user", Hello, "text"), 1),
                        ChatMessage(NewMessage("u2", "user", Hello, "text"), 2) }
    /\ nextSeq = 3
    /\ req = [r \in Reqs |-> Idle]
    /\ probe = NoProbe
    /\ lastWrite = [NoWrites EXCEPT !["u1"] = "insert", !["u2"] = "insert"]
    /\ writeCount = 2
    /\ client = MountedClient("u1")
    /\ auth = NoAuth

SpecClient == InitClient /\ [][NextClient]_vars

\* ------------------------------------------------- the adapters on their own
\* generateGeminiImage touches no state of the server: one call of it is a
\* function of its prompt, the credentials, what the providers answer and the
\* seed drawn.  The providers' answers are kept here, so that a claim can name
\* them.
ImageProbes ==
    [fn : {"generateGeminiImage"}, pc : {"ready"}, prompt : Inputs, fetch : FetchSpace,
     seed : Seeds, upstream : {NoUpstream}, out : {NoAdapterResult}, clean : {<<>>}]

\* generateGeminiResponse on its own: a function of the message, the
\* credentials and what the one upstream call does.  Besides UpstreamText the
\* upstream may fail with a description that names both API_KEY and quota,
\* with each of the overload words, with an empty description, or by throwing
\* a value that is no Error.
ProbeUpstreams ==
    UpstreamText \cup
    { [kind |-> "error", text |-> <<>>, message |-> <<"quota", "for", "API_KEY">>],
      [kind |-> "error", text |-> <<>>, message |-> <<"rate", "limit">>],
      [kind |-> "error", text |-> <<>>, message |-> <<"model", "overloaded">>],
      [kind |-> "error", text |-> <<>>, message |-> <<"503", "unavailable">>],
      [kind |-> "error", text |-> <<>>, message |-> <<>>],
      [kind |-> "thrown", text |-> <<>>, message |-> <<>>] }

TextProbes ==
    [fn : {"generateGeminiResponse"}, pc : {"ready"}, prompt : {Hello, AngleSpaceText},
     fetch : {NoFetch}, seed : {0}, upstream : ProbeUpstreams, out : {NoAdapterResult},
     clean : {<<>>}]

\* sanitizeUserInput on its own.  Besides Inputs: text padded with blanks, text
\* with an angle bracket inside, and long text with a blank at the cut.
PaddedText == <<<<" ", 2>>, <<"a", 3>>, <<" ", 1>>>>
AngleInsideText == <<<<"a", 1>>, <<"<", 1>>, <<"b", 1>>, <<">", 1>>>>
BlankAtCutText == <<<<"a", SliceLimit - 1>>, <<" ", 1>>, <<"b", 1>>>>
AngleAtCutText == <<<<"a", SliceLimit - 1>>, <<"<", 1>>, <<"b", 1>>>>
SanitizeInputs ==
    Inputs \cup {PaddedText, AngleInsideText, BlankAtCutText, AngleAtCutText}

SanitizeProbes ==
    [fn : {"sanitizeUserInput"}, pc : {"ready"}, prompt : SanitizeInputs,
     fetch : {NoFetch}, seed : {0}, upstream : {NoUpstream}, out : {NoAdapterResult},
     clean : {<<>>}]

Probes == ImageProbes \cup TextProbes \cup SanitizeProbes

InitAdapters ==
    /\ env \in EnvSpace
    /\ chat_history = {}
    /\ nextSeq = 1
    /\ req = [r \in Reqs |-> Idle]
    /\ probe \in Probes
    /\ lastWrite = NoWrites
    /\ writeCount = 0
    /\ client = NoClient
    /\ auth = NoAuth

Probe_generateGeminiImage ==
    /\ probe.fn = "generateGeminiImage" /\ probe.pc = "ready"
    /\ probe' = [probe EXCEPT !.pc = "done",
                              !.out = generateGeminiImage(probe.prompt, env, probe.fetch, probe.seed)]
    /\ UNCHANGED <<env, auth, chat_history, nextSeq, req, lastWrite, writeCount, client>>

Probe_generateGeminiResponse ==
    /\ probe.fn = "generateGeminiResponse" /\ probe.pc = "ready"
    /\ probe' = [probe EXCEPT !.pc = "done",
                              !.out = generateGeminiResponse(probe.prompt, env, probe.upstream)]
    /\ UNCHANGED <<env, auth, chat_history, nextSeq, req, lastWrite, writeCount, client>>

Probe_sanitizeUserInput ==
    /\ probe.fn = "sanitizeUserInput" /\ probe.pc = "ready"
    /\ probe' = [probe EXCEPT !.pc = "done", !.clean = sanitizeUserInput(probe.prompt)]
    /\ UNCHANGED <<env, auth, chat_history, nextSeq, req, lastWrite, writeCount, client>>

NextAdapters ==
    \/ Probe_generateGeminiImage
    \/ Probe_generateGeminiResponse
    \/ Probe_sanitizeUserInput

SpecAdapters == InitAdapters /\ [][NextAdapters]_vars

\* ------------------------------------------------ sessions and the home page
\* The clock, Date.now(), runs from 1 to MaxNow.
MaxNow == 3

\* JSON values a session cookie may hold: null, a scalar, or an object with or
\* without a user and with or without expiresAt.  Thrown marks an exception.
JsonValue(kind, hasUser, hasExpiresAt, expiresAt) ==
    [kind |-> kind, hasUser |-> hasUser, hasExpiresAt |-> hasExpiresAt, expiresAt |-> expiresAt]

JsonNull == JsonValue("null", FALSE, FALSE, 0)
JsonScalar == JsonValue("scalar", FALSE, FALSE, 0)
Thrown == JsonValue("thrown", FALSE, FALSE, 0)

\* {user, accessToken, idToken, expiresAt}
SessionObject(expiresAt) == JsonValue("object", TRUE, TRUE, expiresAt)

\* A cookie's text either is the JSON of a value or is no JSON at all.
JSONStringify(value) == [wellFormed |-> TRUE, json |-> value]
NotJson == [wellFormed |-> FALSE, json |-> JsonNull]
JSONParse(text) == IF text.wellFormed THEN text.json ELSE Thrown

\* cookieStore.get(name): undefined, or the cookie with its value.
NoCookie == [present |-> FALSE, value |-> ""]
NoSessionCookie == [present |-> FALSE, value |-> NotJson]
Cookie(value) == [present |-> TRUE, value |-> value]

\* The two cookies of a request: auth0.is.authenticated and auth0.session.
CookieJar(authenticatedCookie, sessionCookie) ==
    [isAuthenticated |-> authenticatedCookie, sessionCookie |-> sessionCookie]

NoCookies == CookieJar(NoCookie, NoSessionCookie)

\* JavaScript truthiness of a number: expiresAt 0 counts as not set.
TruthyNumber(n) == n # 0

\* The body of getSession's try block.
getSessionTry(jar, now) ==
    IF \/ ~jar.isAuthenticated.present
       \/ ~jar.sessionCookie.present
       \/ jar.isAuthenticated.value # "true"
    THEN JsonNull
    ELSE LET session == JSONParse(jar.sessionCookie.value) IN
         IF session = Thrown THEN Thrown
         ELSE IF session.kind = "null" THEN Thrown
         ELSE IF session.hasExpiresAt /\ TruthyNumber(session.expiresAt) /\ now > session.expiresAt
         THEN JsonNull
         ELSE session

\* Mutant: the session's expiry is not looked at.
getSession_IgnoresExpiry(jar, now) ==
    IF \/ ~jar.isAuthenticated.present
       \/ ~jar.sessionCookie.present
       \/ jar.isAuthenticated.value # "true"
    THEN JsonNull
    ELSE LET session == JSONParse(jar.sessionCookie.value) IN
         IF session = Thrown \/ session.kind = "null" THEN JsonNull ELSE session

\* auth0.getSession: the catch turns every exception into null.
getSession(jar, now) ==
    LET session == getSessionTry(jar, now) IN
    IF session = Thrown THEN JsonNull ELSE session

\* Home: the login screen for a falsy session, else the chat interface; reading
\* session.user.sub of a session without a user throws while rendering.
Home(session) ==
    IF session = Thrown \/ session.kind = "null" THEN "login"
    ELSE IF ~session.hasUser THEN "error"
    ELSE "chat"

NotRendered == [jar |-> NoCookies, now |-> 0, since |-> "none", session |-> JsonNull, view |-> "none"]

NoResponse == [route |-> "none", status |-> 0]

\* What the token endpoint grants: expires_in, in clock ticks.
ExpiresIn == {1, 2}

\* How a callback request ends.
CallbackOutcomes == {"noCode", "tokenFailed", "userInfoFailed", "ok"}

\* Cookies a request may carry that no route of the application wrote.
ForeignJars ==
    { CookieJar(a, c) :
        a \in {NoCookie, Cookie("true"), Cookie("false")},
        c \in {NoSessionCookie, Cookie(NotJson), Cookie(JSONStringify(JsonNull)),
               Cookie(JSONStringify(JsonScalar)),
               Cookie(JSONStringify(JsonValue("object", TRUE, FALSE, 0))),
               Cookie(JSONStringify(SessionObject(0))),
               Cookie(JSONStringify(SessionObject(1))),
               Cookie(JSONStringify(SessionObject(MaxNow)))} }

AuthUnchanged == UNCHANGED <<env, chat_history, nextSeq, req, probe, lastWrite, writeCount, client>>

\* GET /api/auth/login, and every route when the Auth0 configuration is
\* missing: no cookie is touched.
Auth_Login ==
    /\ auth' = [auth EXCEPT !.response = IF auth.configured
                                         THEN [route |-> "login", status |-> 307]
                                         ELSE [route |-> "login", status |-> 500]]
    /\ AuthUnchanged

\* GET /api/auth/logout: both cookies are deleted.
Auth_Logout ==
    /\ auth' = IF ~auth.configured
               THEN [auth EXCEPT !.response = [route |-> "logout", status |-> 500]]
               ELSE [auth EXCEPT !.response = [route |-> "logout", status |-> 307],
                                 !.jar = NoCookies,
                                 !.since = "logout"]
    /\ AuthUnchanged

\* GET /api/auth/callback: after a successful exchange both cookies are set.
Auth_Callback ==
    /\ \E outcome \in CallbackOutcomes, expires_in \in ExpiresIn :
          auth' = IF ~auth.configured
                  THEN [auth EXCEPT !.response = [route |-> "callback", status |-> 500]]
                  ELSE IF outcome = "noCode"
                  THEN [auth EXCEPT !.response = [route |-> "callback", status |-> 400]]
                  ELSE IF outcome \in {"tokenFailed", "userInfoFailed"}
                  THEN [auth EXCEPT !.response = [route |-> "callback", status |-> 500]]
                  ELSE [auth EXCEPT !.response = [route |-> "callback", status |-> 307],
                                    !.jar = CookieJar(Cookie("true"),
                                                Cookie(JSONStringify(SessionObject(auth.now + expires_in)))),
                                    !.since = "callback"]
    /\ AuthUnchanged

\* The browser comes with cookies the application did not write.
Auth_ForeignCookies ==
    /\ \E jar \in ForeignJars : auth' = [auth EXCEPT !.jar = jar, !.since = "foreign"]
    /\ AuthUnchanged

\* Time passes.
Auth_Tick ==
    /\ auth.now < MaxNow
    /\ auth' = [auth EXCEPT !.now = @ + 1]
    /\ AuthUnchanged

\* GET /: Home renders from the request's cookies.
Auth_Home ==
    /\ LET session == getSession(auth.jar, auth.now) IN
       auth' = [auth EXCEPT !.rendered = [jar |-> auth.jar, now |-> auth.now, since |-> auth.since,
                                          session |-> session, view |-> Home(session)]]
    /\ AuthUnchanged

NextAuth ==
    \/ Auth_Login
    \/ Auth_Logout
    \/ Auth_Callback
    \/ Auth_ForeignCookies
    \/ Auth_Tick
    \/ Auth_Home

InitAuth ==
    /\ env \in EnvSpace
    /\ env.GEMINI_API_KEY /\ ~env.HUGGINGFACE_API_KEY /\ ~env.OPENAI_API_KEY
    /\ chat_history = {}
    /\ nextSeq = 1
    /\ req = [r \in Reqs |-> Idle]
    /\ probe = NoProbe
    /\ lastWrite = NoWrites
    /\ writeCount = 0
    /\ client = NoClient
    /\ \E configured \in BOOLEAN :
          auth = [configured |-> configured, jar |-> NoCookies, now |-> 1, since |-> "none",
                  response |-> NoResponse, rendered |-> NotRendered]

SpecAuth == InitAuth /\ [][NextAuth]_vars



\* =================================================================== claims
Settled(r) == req[r].pc = "done"

\* A row some call inserted is in the table, unless a clearHistory for its
\* user has deleted since.
InTableUnlessCleared(row) ==
    \/ row \in chat_history
    \/ \E c \in Reqs : /\ req[c].op = "clearHistory"
                       /\ req[c].userId = row.user_id
                       /\ req[c].result.status = "success"

RowsInsertedBy(r) == {req[r].inserted[i] : i \in 1..Len(req[r].inserted)}

IsRow(row, userId, role, content, contentType) ==
    /\ row # NoRow
    /\ row.user_id = userId
    /\ row.role = role
    /\ row.content = content
    /\ row.content_type = contentType

\* ----------------------------------------------------------------------- C1
SendMessageCompleted(r) ==
    /\ req[r].op = "sendMessage"
    /\ req[r].userMessage # NoRow
    /\ req[r].aiMessage # NoRow

\* C1: a sendMessage whose two inserts succeed and whose text adapter succeeds
\* has inserted exactly two rows for its userId, both put into the table: first
\* user/text holding the sanitized message, then model/text holding the
\* adapter's response; aiResponse is the model row's content.
C1_SendMessageAddsUserThenModelRow ==
    \A r \in Reqs :
       (SendMessageCompleted(r) /\ req[r].adapter.success) =>
          /\ Settled(r)
          /\ req[r].inserted = <<req[r].userMessage, req[r].aiMessage>>
          /\ IsRow(req[r].userMessage, req[r].userId, "user",
                   sanitizeUserInput(req[r].input), "text")
          /\ IsRow(req[r].aiMessage, req[r].userId, "model", req[r].adapter.text, "text")
          /\ req[r].adapter.text = req[r].upstream.text
          /\ req[r].userMessage.created_at < req[r].aiMessage.created_at
          /\ req[r].userMessage.id # req[r].aiMessage.id
          /\ InTableUnlessCleared(req[r].userMessage)
          /\ InTableUnlessCleared(req[r].aiMessage)
          /\ req[r].result.status = "success"
          /\ req[r].result.aiResponse = req[r].aiMessage.content

\* A sendMessage of "< a" went through with the adapter answering "Hi there";
\* both rows are in the table.
C1_Witness ==
    \E r \in Reqs :
       /\ SendMessageCompleted(r) /\ req[r].adapter.success
       /\ req[r].input = AngleSpaceText
       /\ req[r].aiMessage.content = HiThere
       /\ {req[r].userMessage, req[r].aiMessage} \subseteq chat_history

\* ----------------------------------------------------------------------- C2
LengthLimit(op) == IF op = "sendMessage" THEN MaxMessageLen ELSE MaxPromptLen

\* The inputs the claim counts as rejected by validation.
RejectedByValidation(op, input) ==
    \/ input = <<>>
    \/ Trim(input) = <<>>
    \/ sanitizeUserInput(input) = <<>>
    \/ Length(input) > LengthLimit(op)

\* C2: a sendMessage or generateImage whose message or prompt is empty, empty
\* after trimming and sanitizing, or over the length limit ends in a validation
\* error and has inserted no row.
C2_RejectedInputInsertsNothing ==
    \A r \in Reqs :
       (req[r].op \in {"sendMessage", "generateImage"}
          /\ RejectedByValidation(req[r].op, req[r].input)) =>
          /\ req[r].inserted = <<>>
          /\ Settled(r) => req[r].result.code = "BAD_REQUEST"

\* ----------------------------------------------------------------------- C3
\* C3: a call of any operation with no user identity in its context is rejected
\* with UNAUTHORIZED before any table access and before any adapter call.
C3_NoIdentityIsUnauthorized ==
    \A r \in Reqs :
       (req[r].op # "none" /\ ~req[r].ctxUser) =>
          /\ Settled(r)
          /\ req[r].result.code = "UNAUTHORIZED"
          /\ req[r].inserted = <<>>
          /\ req[r].adapter = NoAdapterResult

\* ----------------------------------------------------------------------- C4
ApologyTexts == {NotConfiguredText, InvalidKeyText, OverloadedText, TechnicalDifficultiesText}

\* The upstream call failed with a quota / overload description.
QuotaOrOverload(r) ==
    /\ req[r].upstream.kind = "error"
    /\ \E w \in {"quota", "limit", "overloaded", "503"} : Includes(req[r].upstream.message, w)
    /\ ~Includes(req[r].upstream.message, "API_KEY")

\* C4: a sendMessage whose two inserts succeed and whose text adapter reports
\* failure has stored the adapter's apology text as a model/text row and
\* returns success = true with geminiSuccess = false; after a quota / overload
\* failure the stored text holds the /image suggestion.
C4_AdapterFailureIsStoredAsReply ==
    \A r \in Reqs :
       (SendMessageCompleted(r) /\ ~req[r].adapter.success) =>
          /\ Settled(r)
          /\ req[r].inserted = <<req[r].userMessage, req[r].aiMessage>>
          /\ IsRow(req[r].aiMessage, req[r].userId, "model", req[r].adapter.text, "text")
          /\ req[r].adapter.text \in ApologyTexts
          /\ InTableUnlessCleared(req[r].aiMessage)
          /\ req[r].result.status = "success"
          /\ req[r].result.code = ""
          /\ ~req[r].result.geminiSuccess
          /\ req[r].result.aiResponse = req[r].aiMessage.content
          /\ (QuotaOrOverload(r) => Contains(req[r].aiMessage.content, "/image"))

\* A sendMessage whose upstream call failed with "quota exceeded" returned
\* success, and the row with the /image suggestion is in the table.
C4_Witness ==
    \E r \in Reqs :
       /\ SendMessageCompleted(r) /\ ~req[r].adapter.success
       /\ QuotaOrOverload(r)
       /\ req[r].aiMessage \in chat_history
       /\ Contains(req[r].aiMessage.content, "/image")
       /\ req[r].result.status = "success"

\* ----------------------------------------------------------------------- C5
\* A sendMessage that passed the input schema and settled with one of its two
\* inserts thrown.
SendMessageInsertThrew(r) ==
    /\ req[r].op = "sendMessage"
    /\ Settled(r)
    /\ req[r].result.code # "BAD_REQUEST"
    /\ (req[r].userMessage = NoRow \/ req[r].aiMessage = NoRow)

RowsBeforeCatch(r) == IF req[r].userMessage = NoRow THEN <<>> ELSE <<req[r].userMessage>>

\* C5: a sendMessage one of whose inserts throws fails with
\* INTERNAL_SERVER_ERROR "Failed to process your message" after exactly one
\* attempt to insert the generic apology as a model/text row, whether or not
\* that attempt succeeds; a sendMessage whose inserts both succeed makes no
\* such attempt.
C5_InsertFailureApologisesOnce ==
    \A r \in Reqs :
       /\ SendMessageInsertThrew(r) =>
             /\ req[r].result = InternalError(<<"Failed to process your message">>)
             /\ req[r].apologyAttempts = 1
             /\ \/ req[r].inserted = RowsBeforeCatch(r)
                \/ /\ Len(req[r].inserted) = Len(RowsBeforeCatch(r)) + 1
                   /\ SubSeq(req[r].inserted, 1, Len(RowsBeforeCatch(r))) = RowsBeforeCatch(r)
                   /\ IsRow(req[r].inserted[Len(req[r].inserted)], req[r].userId, "model",
                            HandlerApologyText, "text")
                   /\ InTableUnlessCleared(req[r].inserted[Len(req[r].inserted)])
       /\ (req[r].op = "sendMessage" /\ ~SendMessageInsertThrew(r)) =>
             req[r].apologyAttempts = 0

\* The user row went in, the model row's insert threw, and so did the apology's.
C5_Witness ==
    \E r \in Reqs :
       /\ SendMessageInsertThrew(r)
       /\ req[r].userMessage # NoRow
       /\ req[r].adapter # NoAdapterResult
       /\ req[r].inserted = <<req[r].userMessage>>
       /\ req[r].result.code = "INTERNAL_SERVER_ERROR"


\* ----------------------------------------------------------------------- C6
\* generateGeminiImage has returned to call r with success = false.
ImageAdapterFailed(r) ==
    /\ req[r].op = "generateImage"
    /\ req[r].adapter # NoAdapterResult
    /\ ~req[r].adapter.success

\* C6: a generateImage whose adapter returns success = false has failed with
\* INTERNAL_SERVER_ERROR; it has inserted its user/text prompt row and nothing
\* else, that row stays in the table, and the table holds no row that no call
\* inserted.
C6_ImageFailureLeavesOrphanedPrompt ==
    \A r \in Reqs :
       ImageAdapterFailed(r) =>
          /\ Settled(r)
          /\ req[r].result.status = "error"
          /\ req[r].result.code = "INTERNAL_SERVER_ERROR"
          /\ req[r].aiMessage = NoRow
          /\ req[r].inserted = <<req[r].userMessage>>
          /\ IsRow(req[r].userMessage, req[r].userId, "user",
                   sanitizeUserInput(req[r].input), "text")
          /\ InTableUnlessCleared(req[r].userMessage)
          /\ \A row \in chat_history : \E c \in Reqs : row \in RowsInsertedBy(c)

\* A generateImage has failed on its adapter's word and its prompt row is the
\* only row of its user in the table.
C6_Witness ==
    \E r \in Reqs :
       /\ ImageAdapterFailed(r)
       /\ Settled(r)
       /\ RowsOf(req[r].userId) = {req[r].userMessage}

\* ----------------------------------------------------------------------- C7
ImageProbeDone == probe.fn = "generateGeminiImage" /\ probe.pc = "done"

Invoked(provider) == \E i \in 1..Len(probe.out.calls) : probe.out.calls[i] = provider

HuggingFaceSucceeded == Invoked("huggingface") /\ probe.fetch.hf = "ok"
PollinationsSucceeded == Invoked("pollinations") /\ probe.fetch.poll = "image"
OpenAISucceeded == Invoked("openai") /\ probe.fetch.openai = "url"

\* C7: in one generateGeminiImage call, if Hugging Face is configured and
\* succeeds, Pollinations and OpenAI are not invoked and the data URL is
\* returned; if Hugging Face fails or is not configured and Pollinations
\* succeeds, OpenAI is not invoked and the Pollinations URL is returned.
C7_FirstSuccessShortCircuits ==
    ImageProbeDone =>
       /\ (env.HUGGINGFACE_API_KEY /\ HuggingFaceSucceeded) =>
             /\ ~Invoked("pollinations") /\ ~Invoked("openai")
             /\ probe.out.success
             /\ probe.out.text = HuggingFaceDataUrl
       /\ (~HuggingFaceSucceeded /\ PollinationsSucceeded) =>
             /\ ~Invoked("openai")
             /\ probe.out.success
             /\ probe.out.text = PollinationsUrl(sanitizeUserInput(probe.prompt), probe.seed)
       /\ (~HuggingFaceSucceeded /\ ~PollinationsSucceeded /\ OpenAISucceeded) =>
             /\ probe.out.success
             /\ probe.out.text = OpenAIUrl

\* Hugging Face was asked and failed, Pollinations succeeded, and OpenAI, which
\* is configured and would have answered, was not asked.
C7_Witness ==
    /\ ImageProbeDone
    /\ env.HUGGINGFACE_API_KEY /\ env.OPENAI_API_KEY
    /\ probe.fetch.hf = "non2xx" /\ probe.fetch.openai = "url"
    /\ PollinationsSucceeded
    /\ probe.out.calls = <<"huggingface", "pollinations">>

\* ----------------------------------------------------------------------- C8
HuggingFaceFailed == Invoked("huggingface") /\ probe.fetch.hf \in {"non2xx", "throws"}
PollinationsFailed == Invoked("pollinations") /\ probe.fetch.poll \in {"notImage", "non2xx", "throws"}
OpenAIFailed == Invoked("openai") /\ probe.fetch.openai \in {"noUrl", "non2xx", "throws"}

\* C8: when each provider is either not configured or has failed (a non-2xx
\* answer, a throw, for Pollinations an answer that is no image, for OpenAI a
\* 2xx answer without a URL), generateGeminiImage returns success = true with
\* the placeholder URL.
C8_ExhaustedChainReturnsPlaceholder ==
    (/\ ImageProbeDone
     /\ (~env.HUGGINGFACE_API_KEY \/ HuggingFaceFailed)
     /\ PollinationsFailed
     /\ (~env.OPENAI_API_KEY \/ OpenAIFailed)) =>
       /\ probe.out.success
       /\ probe.out.text = PlaceholderUrl
       /\ probe.out.text # <<>>

\* All three providers were asked; one threw, one answered with no image, one
\* answered 2xx without a URL.
C8_Witness ==
    /\ ImageProbeDone
    /\ probe.out.calls = <<"huggingface", "pollinations", "openai">>
    /\ probe.fetch = [hf |-> "throws", poll |-> "notImage", openai |-> "noUrl"]
    /\ probe.out.text = PlaceholderUrl

\* ----------------------------------------------------------------------- C9
\* The prompt the adapter validates: it sanitizes what the handler hands it.
AdapterPrompt(r) == sanitizeUserInput(req[r].sanitized)

\* C9 as claimed: the adapter reports failure to generateImage only for a
\* prompt that is empty or too long after sanitizing.
C9_AbortOnlyForInvalidPrompt ==
    \A r \in Reqs :
       ImageAdapterFailed(r) =>
          \/ AdapterPrompt(r) = <<>>
          \/ Length(AdapterPrompt(r)) > AdapterMaxLen

\* C9 as amended: the adapter reports failure to generateImage only for a
\* prompt that is empty or too long after sanitizing, or when GEMINI_API_KEY
\* is not set; with that key set and such a prompt, it reports success
\* whatever the providers answer and whichever provider keys are set.
C9_AbortOnlyForInvalidPromptOrNoGeminiKey ==
    \A r \in Reqs :
       /\ ImageAdapterFailed(r) =>
             \/ AdapterPrompt(r) = <<>>
             \/ Length(AdapterPrompt(r)) > AdapterMaxLen
             \/ ~env.GEMINI_API_KEY
       /\ (req[r].op = "generateImage" /\ req[r].adapter # NoAdapterResult
             /\ env.GEMINI_API_KEY /\ AdapterPrompt(r) # <<>>
             /\ Length(AdapterPrompt(r)) <= AdapterMaxLen) =>
             /\ req[r].adapter.success
             /\ req[r].result.code # "INTERNAL_SERVER_ERROR" \/ req[r].aiMessage = NoRow

\* A generateImage was aborted for its blank prompt, with no provider key set.
C9_Witness ==
    \E r \in Reqs :
       /\ ImageAdapterFailed(r)
       /\ Settled(r)
       /\ req[r].input = Blank
       /\ env.GEMINI_API_KEY /\ ~env.HUGGINGFACE_API_KEY /\ ~env.OPENAI_API_KEY

\* ---------------------------------------------------------------------- C10
GenerateImageSucceeded(r) ==
    /\ req[r].op = "generateImage"
    /\ Settled(r)
    /\ req[r].result.status = "success"

\* C10: a generateImage that succeeds has inserted exactly two rows for its
\* userId, both put into the table: first user/text holding the sanitized
\* prompt, then model/image holding the imageUrl it returns; with Hugging Face
\* not configured and Pollinations the provider that answered, that URL is the
\* Pollinations URL of the prompt, ending in &model=flux&nologo=true.
C10_GenerateImageAddsPromptThenImageRow ==
    \A r \in Reqs :
       /\ GenerateImageSucceeded(r) =>
             /\ req[r].inserted = <<req[r].userMessage, req[r].aiMessage>>
             /\ IsRow(req[r].userMessage, req[r].userId, "user",
                      sanitizeUserInput(req[r].input), "text")
             /\ IsRow(req[r].aiMessage, req[r].userId, "model", req[r].result.imageUrl, "image")
             /\ req[r].result.imageUrl # <<>>
             /\ req[r].userMessage.created_at < req[r].aiMessage.created_at
             /\ InTableUnlessCleared(req[r].userMessage)
             /\ InTableUnlessCleared(req[r].aiMessage)
             /\ (~env.HUGGINGFACE_API_KEY /\ req[r].adapter.source = "pollinations") =>
                   /\ req[r].result.imageUrl[1] = <<PollinationsPrefix, 1>>
                   /\ EndsWith(req[r].result.imageUrl, "&model=flux&nologo=true")
                   /\ \E seed \in Seeds :
                         req[r].result.imageUrl = PollinationsUrl(AdapterPrompt(r), seed)
       /\ (req[r].op = "generateImage" /\ req[r].aiMessage # NoRow) => GenerateImageSucceeded(r)

\* generateImage("< a") succeeded through Pollinations with Hugging Face not
\* configured, and both rows are in the table.
C10_Witness ==
    \E r \in Reqs :
       /\ GenerateImageSucceeded(r)
       /\ req[r].input = AngleSpaceText
       /\ ~env.HUGGINGFACE_API_KEY /\ req[r].adapter.source = "pollinations"
       /\ {req[r].userMessage, req[r].aiMessage} \subseteq chat_history
       /\ req[r].aiMessage.content_type = "image"


\* ---------------------------------------------------------------------- C11
\* Call r is a getChatHistory that has returned its messages.
HistoryReturned(r) ==
    /\ req[r].op = "getChatHistory"
    /\ Settled(r)
    /\ req[r].result.status = "success"

\* This step is call r's clearHistory deleting.
ClearSucceeds(r) ==
    /\ req[r].op = "clearHistory" /\ req[r].pc = "delete"
    /\ req'[r].pc = "done" /\ req'[r].result.status = "success"

\* C11: a getChatHistory(u) that reads when the last write for u was a
\* successful clearHistory(u) returns no message and count 0, and the step in
\* which clearHistory(u) deletes leaves no row of u and leaves the rows of
\* every other user id as they were.
C11_ClearEmptiesOneUserOnly ==
    /\ [](\A r \in Reqs :
            (HistoryReturned(r) /\ req[r].sawLastWrite = "delete") =>
               /\ req[r].result.messages = <<>>
               /\ req[r].result.count = 0)
    /\ [][\A r \in Reqs :
            ClearSucceeds(r) =>
               /\ RowsOf(req[r].userId)' = {}
               /\ \A other \in AllUserIds \ {req[r].userId} : RowsOf(other)' = RowsOf(other)]_vars

\* u1's history was read after the one clearHistory so far, which was for u1
\* and removed rows; u2 still has its rows.
C11_Witness ==
    \E r \in Reqs :
       /\ HistoryReturned(r)
       /\ req[r].userId = "u1"
       /\ req[r].sawLastWrite = "delete"
       /\ writeCount = nextSeq
       /\ RowsOf("u2") # {}
       /\ Cardinality(chat_history) < nextSeq - 1

\* ---------------------------------------------------------------------- C12
\* C12: while the table has taken no write since a getChatHistory(u) read it,
\* the messages that call returned are exactly the rows whose user_id is u,
\* each once, in ascending created_at, and count is their number.
C12_HistoryIsTheUsersRowsInOrder ==
    \A r \in Reqs :
       (HistoryReturned(r) /\ req[r].sawWrites = writeCount) =>
          LET messages == req[r].result.messages IN
          /\ {messages[i] : i \in 1..Len(messages)} = RowsOf(req[r].userId)
          /\ Len(messages) = Cardinality(RowsOf(req[r].userId))
          /\ \A i, j \in 1..Len(messages) :
                i < j => messages[i].created_at <= messages[j].created_at
          /\ req[r].result.count = Len(messages)

\* A history of two messages was returned while another user has an older row.
C12_Witness ==
    \E r \in Reqs :
       /\ HistoryReturned(r)
       /\ req[r].sawWrites = writeCount
       /\ req[r].result.count = 2
       /\ \E other \in chat_history :
             /\ other.user_id # req[r].userId
             /\ other.created_at < req[r].result.messages[2].created_at

\* ---------------------------------------------------------------------- C15
\* This step is call r's getChatHistory reading.
HistoryReads(r) ==
    /\ req[r].op = "getChatHistory" /\ req[r].pc = "select"
    /\ req'[r].pc = "done"

\* C15: two getChatHistory(u) calls that read with no insert and no delete
\* between them return the same messages in the same order and the same count,
\* and the step in which a getChatHistory reads leaves the table as it was.
C15_GetChatHistoryIsIdempotent ==
    /\ [](\A a, b \in Reqs :
            (/\ HistoryReturned(a) /\ HistoryReturned(b)
             /\ req[a].userId = req[b].userId
             /\ req[a].sawWrites = req[b].sawWrites) =>
               /\ req[a].result.messages = req[b].result.messages
               /\ req[a].result.count = req[b].result.count)
    /\ [][\A r \in Reqs : HistoryReads(r) => chat_history' = chat_history]_vars

\* Two calls have read the same non-empty history.
C15_Witness ==
    \E a, b \in Reqs :
       /\ a # b
       /\ HistoryReturned(a) /\ HistoryReturned(b)
       /\ req[a].userId = req[b].userId
       /\ req[a].sawWrites = req[b].sawWrites
       /\ req[a].result.count >= 1

\* ---------------------------------------------------------------------- C16
\* C16: in every step of sendMessage, sendMessageStream, generateImage,
\* getChatHistory and clearHistory calls, a row with the id of a row already
\* stored is that row unchanged, a row leaves the table only in the deleting
\* step of a clearHistory for its user_id, and no two rows share an id.
C16_RowsAreImmutable ==
    /\ [](\A m, n \in chat_history : m.id = n.id => m = n)
    /\ [][/\ \A row \in chat_history : \A kept \in chat_history' :
               kept.id = row.id => kept = row
          /\ \A row \in chat_history \ chat_history' :
               \E r \in Reqs : ClearSucceeds(r) /\ req[r].userId = row.user_id]_vars

\* The first row ever stored is still in the table after later inserts and a
\* clearHistory that removed rows.
C16_Witness ==
    /\ \E row \in chat_history : row.id = 1
    /\ writeCount >= nextSeq
    /\ nextSeq >= 4
    /\ Cardinality(chat_history) < nextSeq - 1


\* ---------------------------------------------------------------------- C13
\* Call r is a sendMessageStream whose input passed the schema.
Streaming(r) == req[r].op = "sendMessageStream" /\ req[r].result.code = ""

IsTerminal(event) == event.type \in {"complete", "error"}

\* events has its terminal event, if any, last and once, and only chunk events
\* between its first event and that one.
EndsOnce(events) ==
    \A i \in 1..Len(events) :
       /\ IsTerminal(events[i]) => i = Len(events)
       /\ (1 < i /\ i < Len(events)) => events[i].type = "chunk"

\* C13 as claimed: the events of a streaming sendMessage are one
\* userMessageSaved first, then chunk events, then one terminal event once the
\* call has ended, whatever the store and the upstream do.
C13_EventsStartWithUserMessageSaved ==
    \A r \in Reqs :
       Streaming(r) =>
          LET events == req[r].events IN
          /\ EndsOnce(events)
          /\ \A i \in 1..Len(events) : (events[i].type = "userMessageSaved") <=> (i = 1)
          /\ Settled(r) <=> (events # <<>> /\ IsTerminal(events[Len(events)]))
          /\ Settled(r) => Len(events) >= 2

\* C13 as amended: a streaming sendMessage whose user row was inserted yields
\* one userMessageSaved first, then chunk events, then one terminal event,
\* after which it yields nothing; one whose user row was not inserted yields
\* one error event and nothing else.
C13_EventsEndOnceAfterUserMessageSaved ==
    \A r \in Reqs :
       Streaming(r) =>
          LET events == req[r].events IN
          /\ EndsOnce(events)
          /\ Settled(r) <=> (events # <<>> /\ IsTerminal(events[Len(events)]))
          /\ \A i \in 1..Len(events) :
                (events[i].type = "userMessageSaved") <=> (i = 1 /\ req[r].userMessage # NoRow)
          /\ (req[r].userMessage # NoRow /\ req[r].pc # "streamAddUserMessage") =>
                events[1].type = "userMessageSaved"
          /\ (req[r].userMessage = NoRow /\ Settled(r)) =>
                (Len(events) = 1 /\ events[1].type = "error")

\* A stream has yielded userMessageSaved, two chunks and then error.
C13_Witness ==
    \E r \in Reqs :
       /\ Streaming(r) /\ Settled(r)
       /\ Len(req[r].events) = 4
       /\ req[r].events[1].type = "userMessageSaved"
       /\ req[r].events[3].type = "chunk"
       /\ req[r].events[4].type = "error"

\* ---------------------------------------------------------------------- C14
\* The fragments yielded as chunk events, concatenated in order.
RECURSIVE ChunksOf(_)
ChunksOf(events) ==
    IF events = <<>> THEN <<>>
    ELSE IF Head(events).type = "chunk"
         THEN Concat(Head(events).chunk, ChunksOf(Tail(events)))
         ELSE ChunksOf(Tail(events))

ModelRowsInsertedBy(r) ==
    {i \in 1..Len(req[r].inserted) : req[r].inserted[i].role = "model"}

\* The generator has yielded the done marker of a stream that did not fail.
UpstreamCompleted(r) == req[r].adapter.source = "gemini" /\ req[r].adapter.success

\* C14 as claimed: a streaming sendMessage whose upstream stream completed
\* inserts the model row once, after the done marker, holding the chunks
\* concatenated; none is inserted while fragments arrive.
C14_CompletedStreamStoresConcatenation ==
    \A r \in Reqs :
       Streaming(r) =>
          /\ req[r].pc \in {"streamAddUserMessage", "stream"} => ModelRowsInsertedBy(r) = {}
          /\ (UpstreamCompleted(r) /\ Settled(r)) =>
                /\ Cardinality(ModelRowsInsertedBy(r)) = 1
                /\ req[r].aiMessage.content = ChunksOf(req[r].events)

\* C14 as amended: a streaming sendMessage that yields complete has inserted
\* the model row once, after the done marker, holding the chunks concatenated;
\* none is inserted while fragments arrive; when the upstream stream completed
\* and that insert failed, the stream ends with error and the only model row
\* it may have inserted holds the fixed apology.
C14_CompleteEventStoresConcatenation ==
    \A r \in Reqs :
       Streaming(r) =>
          LET events == req[r].events IN
          /\ req[r].pc \in {"streamAddUserMessage", "stream"} => ModelRowsInsertedBy(r) = {}
          /\ (events # <<>> /\ events[Len(events)].type = "complete") =>
                /\ UpstreamCompleted(r)
                /\ req[r].inserted = <<req[r].userMessage, req[r].aiMessage>>
                /\ IsRow(req[r].aiMessage, req[r].userId, "model", ChunksOf(events), "text")
                /\ events[Len(events)].chunk = ChunksOf(events)
          /\ (UpstreamCompleted(r) /\ Settled(r) /\ events[Len(events)].type # "complete") =>
                /\ events[Len(events)].type = "error"
                /\ Cardinality(ModelRowsInsertedBy(r)) <= 1
                /\ \A i \in ModelRowsInsertedBy(r) : req[r].inserted[i].content = HandlerApologyText

\* A stream of "Hi" and " there" completed; its model row holds "Hi there" and
\* was inserted after a row of another call.
C14_Witness ==
    \E r \in Reqs :
       /\ Streaming(r) /\ Settled(r)
       /\ req[r].events[Len(req[r].events)].type = "complete"
       /\ req[r].aiMessage.content = <<<<"Hi", 1>>, <<" there", 1>>>>
       /\ req[r].aiMessage.id > req[r].userMessage.id + 1
       /\ req[r].aiMessage \in chat_history


\* ---------------------------------------------------------------------- C17
\* The last handler run was sendMessage(): Send was clicked or Enter pressed
\* without Shift.
Submitted == client.lastSubmit.via \in {"click", "enter"}

SubmittedText == ClientTrim(client.lastSubmit.text)

\* The trimmed text begins with /image in any letter case.
BeginsWithImageCommand(trimmed) ==
    /\ Len(trimmed) >= 6
    /\ \A i \in 1..6 : LowerChar(trimmed[i]) = ImageCommandPrefix[i]

\* The trimmed remainder after the 6-character prefix
CommandRemainder(trimmed) == ClientTrim(SliceFrom(trimmed, 6))

\* The calls sendMessage() made in its last run
CallsOfLastSubmit ==
    SubSeq(client.calls, client.lastSubmit.callsBefore + 1, Len(client.calls))

\* C17: the component, for a submitted text that begins (trimmed) with /image
\* in any letter case, calls sendMessage never and, the remainder being
\* non-empty, generateImage once with the trimmed remainder after the
\* 6-character prefix as prompt and its own userId.
C17_ImageCommandCallsGenerateImage ==
    (Submitted /\ BeginsWithImageCommand(SubmittedText)) =>
       /\ \A i \in 1..Len(CallsOfLastSubmit) : CallsOfLastSubmit[i].op # "sendMessage"
       /\ CommandRemainder(SubmittedText) # <<>> =>
             CallsOfLastSubmit =
                <<RpcCall("generateImage", CommandRemainder(SubmittedText), client.userId)>>

\* " /IMAGE  cat " was submitted and generateImage was called with "cat".
C17_Witness ==
    /\ Submitted
    /\ client.lastSubmit.text = ShoutedImageCatText
    /\ CallsOfLastSubmit = <<RpcCall("generateImage", <<"c", "a", "t">>, "u1")>>

\* ---------------------------------------------------------------------- C18
\* C18 as claimed: submitting a non-empty text that does not begin with /image
\* calls sendMessage once with the trimmed text and the userId, and does not
\* call generateImage.
C18_PlainTextCallsSendMessage ==
    (Submitted /\ SubmittedText # <<>> /\ ~BeginsWithImageCommand(SubmittedText)) =>
       CallsOfLastSubmit = <<RpcCall("sendMessage", SubmittedText, client.userId)>>

\* C18 as amended: submitting a non-empty text that does not begin with /image
\* calls sendMessage once with the trimmed text and the userId and does not
\* call generateImage, unless the text looks like an image request and the
\* user accepts the dialog that offers to convert it: then no call is made.
\* Enter with Shift makes no call.
C18_PlainTextCallsSendMessageUnlessConverted ==
    /\ (Submitted /\ SubmittedText # <<>> /\ ~BeginsWithImageCommand(SubmittedText)) =>
          /\ client.lastSubmit.dialog # "none" <=> MatchesImageRequest(ToLowerCase(SubmittedText))
          /\ client.lastSubmit.dialog # "accepted" =>
                CallsOfLastSubmit = <<RpcCall("sendMessage", SubmittedText, client.userId)>>
          /\ client.lastSubmit.dialog = "accepted" => CallsOfLastSubmit = <<>>
    /\ client.lastSubmit.via = "shiftEnter" => CallsOfLastSubmit = <<>>

\* "photo" was submitted with Enter, the conversion was declined, and
\* sendMessage was called with "photo".
C18_Witness ==
    /\ client.lastSubmit.via = "enter"
    /\ client.lastSubmit.text = PhotoText
    /\ client.lastSubmit.dialog = "declined"
    /\ CallsOfLastSubmit = <<RpcCall("sendMessage", PhotoText, "u1")>>

\* ---------------------------------------------------------------------- C19
\* C19: the component calls neither sendMessage nor generateImage for a text
\* that is empty or whitespace only, nor for an /image command whose remainder
\* is empty after trimming; in that case the typing indicator is false after.
C19_NothingToSendMakesNoCall ==
    /\ (Submitted /\ SubmittedText = <<>>) => CallsOfLastSubmit = <<>>
    /\ (Submitted /\ BeginsWithImageCommand(SubmittedText)
          /\ CommandRemainder(SubmittedText) = <<>>) =>
          /\ CallsOfLastSubmit = <<>>
          /\ ~client.isTyping
          /\ client.pending = "none"

\* "/Image  " was submitted after an earlier call, and no call followed.
C19_Witness ==
    /\ Submitted
    /\ client.lastSubmit.text = PaddedBareImageText
    /\ client.lastSubmit.callsBefore = 1
    /\ Len(client.calls) = 1
    /\ ~client.isTyping

\* ---------------------------------------------------------------------- C20
\* C20: the component has sent one clearHistory call, with its own userId, per
\* confirmation dialog answered true and none for a dialog answered false; at
\* the server every clearHistory call goes to its delete, and the deleting
\* step removes the rows of the user id whether or not any dialog was shown.
C20_ClearHistoryConfirmedInClientOnly ==
    /\ [](/\ Len(client.clearCalls) = client.confirmed
          /\ \A i \in 1..Len(client.clearCalls) :
                client.clearCalls[i] = RpcCall("clearHistory", <<>>, client.userId)
          /\ client.clearPending =>
                (req[1].op = "clearHistory" /\ req[1].userId = client.userId)
          /\ client.confirmed = 0 => req[1] = Idle
          /\ \A r \in Reqs : req[r].op = "clearHistory" =>
                (req[r].pc \in {"delete", "done"} /\ req[r].result.code \in {"", "INTERNAL_SERVER_ERROR"}))
    /\ [][\A r \in Reqs : ClearSucceeds(r) => RowsOf(req[r].userId)' = {}]_vars

\* One dialog was cancelled, one confirmed and its call deleted u1's row; u2's
\* row was deleted by a call no dialog preceded.
C20_Witness ==
    /\ client.cancelled = 1 /\ client.confirmed = 1
    /\ Len(client.clearCalls) = 1
    /\ ~client.clearPending
    /\ chat_history = {}

\* ---------------------------------------------------------------------- C21
\* The call got past the early returns and entered the provider chain.
ChainReached ==
    /\ ImageProbeDone
    /\ probe.out.source \in {"huggingface", "pollinations", "openai", "placeholder"}

ProviderRank(provider) ==
    CASE provider = "huggingface" -> 1
      [] provider = "pollinations" -> 2
      [] provider = "openai" -> 3
      [] OTHER -> 0

\* Each provider at most once, and only in the order Hugging Face,
\* Pollinations, OpenAI.
AttemptedOnceInOrder ==
    /\ \A i \in 1..Len(probe.out.calls) : ProviderRank(probe.out.calls[i]) > 0
    /\ \A i, j \in 1..Len(probe.out.calls) :
          i < j => ProviderRank(probe.out.calls[i]) < ProviderRank(probe.out.calls[j])

AttemptedAsConfigured ==
    /\ Invoked("huggingface") <=> env.HUGGINGFACE_API_KEY
    /\ Invoked("pollinations") <=> ~HuggingFaceSucceeded
    /\ Invoked("openai") <=>
          (~HuggingFaceSucceeded /\ ~PollinationsSucceeded /\ env.OPENAI_API_KEY)

\* C21, as stated: within one generateGeminiImage call each provider is
\* attempted at most once and only in the order Hugging Face, Pollinations,
\* OpenAI; Hugging Face is attempted iff its key is set, Pollinations whenever
\* Hugging Face returned no image, OpenAI iff neither returned an image and
\* its key is set.
C21_ProvidersAttemptedOnceInOrder ==
    ImageProbeDone => (AttemptedOnceInOrder /\ AttemptedAsConfigured)

\* C21, amended: the above holds for every call that gets past the early
\* returns (GEMINI_API_KEY set, prompt not empty after sanitizing); a call
\* that returns early attempts no provider at all.
C21_ProvidersAttemptedOnceInOrderAfterEarlyReturns ==
    /\ ChainReached => (AttemptedOnceInOrder /\ AttemptedAsConfigured)
    /\ (ImageProbeDone /\ ~ChainReached) => probe.out.calls = <<>>

\* Hugging Face and Pollinations were asked and returned no image, and OpenAI,
\* whose key is set, was asked last.
C21_Witness ==
    /\ ChainReached
    /\ env.HUGGINGFACE_API_KEY /\ env.OPENAI_API_KEY
    /\ HuggingFaceFailed /\ PollinationsFailed
    /\ probe.out.calls = <<"huggingface", "pollinations", "openai">>

\* ---------------------------------------------------------------------- C22
TextProbeDone == probe.fn = "generateGeminiResponse" /\ probe.pc = "done"

\* The description of the Error the upstream call threw, if it threw one.
ErrorDescription == IF probe.upstream.kind = "error" THEN probe.upstream.message ELSE <<>>

UpstreamSucceeded == probe.out.calls = <<"gemini">> /\ probe.upstream.kind = "ok"

\* The apology the claim's precedence calls for.
ApologyByPrecedence ==
    IF ~env.GEMINI_API_KEY THEN NotConfiguredText
    ELSE IF Includes(ErrorDescription, "API_KEY") THEN InvalidKeyText
    ELSE IF \/ Includes(ErrorDescription, "quota") \/ Includes(ErrorDescription, "limit")
            \/ Includes(ErrorDescription, "overloaded") \/ Includes(ErrorDescription, "503")
         THEN OverloadedText
    ELSE TechnicalDifficultiesText

\* C22: generateGeminiResponse always returns a result: it makes at most one
\* upstream attempt, none when the API key is missing; success is true exactly
\* when the upstream call succeeded, and then the text is the upstream's;
\* otherwise success is false and the text is a non-empty apology chosen by
\* precedence: missing API key, then a description containing API_KEY, then
\* one containing quota, limit, overloaded or 503, else the generic apology.
C22_TextAdapterClassifiesFailures ==
    TextProbeDone =>
       /\ probe.out.source # "none"
       /\ probe.out.calls = (IF env.GEMINI_API_KEY THEN <<"gemini">> ELSE <<>>)
       /\ probe.out.success <=> UpstreamSucceeded
       /\ probe.out.success => probe.out.text = probe.upstream.text
       /\ ~probe.out.success =>
             /\ probe.out.text # <<>>
             /\ probe.out.text = ApologyByPrecedence

\* The upstream failed with a description naming both quota and API_KEY, and
\* the invalid-key apology came back.
C22_Witness ==
    /\ TextProbeDone
    /\ env.GEMINI_API_KEY
    /\ Includes(ErrorDescription, "quota") /\ Includes(ErrorDescription, "API_KEY")
    /\ ~probe.out.success
    /\ probe.out.text = InvalidKeyText

\* ---------------------------------------------------------------------- C23
RowsInRole(r, role) == {i \in 1..Len(req[r].inserted) : req[r].inserted[i].role = role}

\* C23: a sendMessage call has inserted at most one user row and at most one
\* model row, whichever inserts fail and whatever the adapter returns; it
\* attempts the apology insert at most once, and only when it has inserted no
\* model row before, so a model row of a call that apologised is the apology.
C23_SendMessageInsertsAtMostOnePerRole ==
    \A r \in Reqs :
       req[r].op = "sendMessage" =>
          /\ Cardinality(RowsInRole(r, "user")) <= 1
          /\ Cardinality(RowsInRole(r, "model")) <= 1
          /\ req[r].apologyAttempts <= 1
          /\ req[r].apologyAttempts > 0 =>
                /\ req[r].aiMessage = NoRow
                /\ \A i \in RowsInRole(r, "model") :
                      req[r].inserted[i].content = HandlerApologyText

\* The adapter failed, the model row's insert threw, and the apology went in
\* as the call's only model row.
C23_Witness ==
    \E r \in Reqs :
       /\ req[r].op = "sendMessage" /\ Settled(r)
       /\ req[r].adapter # NoAdapterResult /\ ~req[r].adapter.success
       /\ req[r].userMessage # NoRow /\ req[r].aiMessage = NoRow
       /\ req[r].apologyAttempts = 1
       /\ Cardinality(RowsInRole(r, "user")) = 1
       /\ Cardinality(RowsInRole(r, "model")) = 1

\* ---------------------------------------------------------------------- C24
\* A call for userId has started and has not settled.
InFlight(userId) ==
    \E r \in Reqs : req[r].userId = userId /\ req[r].pc \notin {"idle", "done"}

RowsOfRole(userId, role) == {m \in RowsOf(userId) : m.role = role}

\* C24: under every interleaving of sendMessage, generateImage and
\* clearHistory calls for one user and every pattern of insert failures, in
\* each state where no call for that user is in flight the user's history
\* holds no more model rows than user rows.
C24_ModelRowsNeverOutnumberUserRows ==
    \A userId \in AllUserIds \ {""} :
       ~InFlight(userId) =>
          Cardinality(RowsOfRole(userId, "model")) <= Cardinality(RowsOfRole(userId, "user"))

\* ---------------------------------------------------------------------- C25
\* generateGeminiImage, called by r, has handed a prompt to a provider.
PromptSentToProviders(r) ==
    /\ req[r].op = "generateImage"
    /\ req[r].adapter # NoAdapterResult
    /\ req[r].adapter.calls # <<>>

\* C25: in generateImage the prompt stored in the user row, and the prompt
\* returned to the caller, is the very string sent to the image providers,
\* for every accepted prompt: sanitizing in the handler and again in the
\* adapter changes nothing.
C25_StoredPromptIsPromptSent ==
    \A r \in Reqs :
       PromptSentToProviders(r) =>
          /\ req[r].userMessage.content = req[r].adapter.sent
          /\ req[r].result.status = "success" => req[r].result.prompt = req[r].adapter.sent

\* ---------------------------------------------------------------------- C26
SanitizeProbeDone == probe.fn = "sanitizeUserInput" /\ probe.pc = "done"

HasAngleBracket(s) == \E i \in 1..Len(s) : s[i][1] \in AngleBrackets /\ s[i][2] > 0

\* C26: sanitizeUserInput is idempotent, and its output holds no angle
\* bracket, is at most 2000 characters long and neither begins nor ends with
\* whitespace.
C26_SanitizeIsIdempotentAndTrimmed ==
    SanitizeProbeDone =>
       /\ sanitizeUserInput(probe.clean) = probe.clean
       /\ ~HasAngleBracket(probe.clean)
       /\ Length(probe.clean) <= SliceLimit
       /\ Trim(probe.clean) = probe.clean

\* ---------------------------------------------------------------------- C27
\* Call r was turned away by input validation, before its handler ran.
RejectedOnArrival(r) == Settled(r) /\ req[r].result.code = "BAD_REQUEST"

\* C27: no row with an empty user_id is ever in the table, and no history
\* read or bulk delete runs for an empty user id: sendMessage,
\* sendMessageStream, getChatHistory and clearHistory turn an empty userId
\* away as generateImage does.
C27_EmptyUserIdIsRejected ==
    /\ \A m \in chat_history : m.user_id # ""
    /\ \A r \in Reqs :
          (req[r].op # "none" /\ req[r].userId = "") => RejectedOnArrival(r)

\* ---------------------------------------------------------------------- C28
\* This step settles the mutation a submit started.
MutationSettlesNow == client.pending # "none" /\ client'.pending = "none"

\* C28: a submit that turned the typing indicator on keeps it on until its
\* mutation settles; when the mutation settles, with success or with an error,
\* the indicator is off and the input enabled again; the input text is
\* cleared on success and kept as typed on error.
C28_SettlingReleasesTheInput ==
    [][ /\ client.pending # "none" => client.isTyping
        /\ MutationSettlesNow =>
              /\ ~client'.isTyping
              /\ InputEnabled(client')
              /\ client'.lastSettle \in {"success", "error"}
              /\ client'.lastSettle = "success" => client'.newMessage = <<>>
              /\ client'.lastSettle = "error" =>
                    /\ client'.newMessage = client.newMessage
                    /\ client'.newMessage = client.lastSubmit.text ]_vars

\* A submitted message failed: the indicator is off, the input is enabled and
\* still holds the text.
C28_Witness ==
    /\ client.mounted
    /\ client.lastSettle = "error"
    /\ Len(client.calls) > 0
    /\ client.pending = "none" /\ ~client.isTyping /\ InputEnabled(client)
    /\ client.newMessage # <<>>
    /\ client.newMessage = client.lastSubmit.text

\* ---------------------------------------------------------------------- C29
\* How many of the component's mutations have settled so far.
SettledMutations ==
    (Len(client.calls) - (IF client.pending # "none" THEN 1 ELSE 0))
      + (Len(client.clearCalls) - (IF client.clearPending THEN 1 ELSE 0))

\* C29: whenever a sendMessage, generateImage or clearHistory mutation of the
\* component settles, with success or with an error, the component refetches
\* the chat history: it has refetched once for every mutation settled.
C29_EverySettledMutationRefetches ==
    client.mounted => client.refetches = SettledMutations

\* ---------------------------------------------------------------------- C30
HomeRendered == auth.rendered.view # "none"

\* The cookies the home page was rendered from pass getSession's checks.
CookiesAcceptable(inPast) ==
    LET jar == auth.rendered.jar IN
    /\ jar.isAuthenticated.present /\ jar.isAuthenticated.value = "true"
    /\ jar.sessionCookie.present
    /\ jar.sessionCookie.value.wellFormed
    /\ ~inPast

\* expiresAt of the session cookie lies before the time of the request.
ExpiresAtInPast ==
    LET text == auth.rendered.jar.sessionCookie.value IN
    /\ auth.rendered.jar.sessionCookie.present
    /\ text.wellFormed /\ text.json.hasExpiresAt
    /\ text.json.expiresAt < auth.rendered.now

\* The same, for an expiresAt that is set: 0 counts as not set.
SetExpiresAtInPast ==
    /\ ExpiresAtInPast
    /\ auth.rendered.jar.sessionCookie.value.json.expiresAt # 0

SessionGate(inPast) ==
    HomeRendered =>
       /\ auth.rendered.session # Thrown
       /\ auth.rendered.session # JsonNull => CookiesAcceptable(inPast)
       /\ ~CookiesAcceptable(inPast) => auth.rendered.session = JsonNull
       /\ auth.rendered.since = "logout" => auth.rendered.session = JsonNull
       /\ auth.rendered.view = "chat" => auth.rendered.session # JsonNull
       /\ auth.rendered.session = JsonNull => auth.rendered.view = "login"

====
